---------------------------- MODULE Spec2Model ----------------------------
(***************************************************************************)
(* A model of the rule-based bias detection engine (bias_engine.py): the   *)
(* three detectors and run_all, applied by a caller to a trade table.      *)
(*                                                                         *)
(* Representation of numbers.  Timestamps are whole minutes and quantities *)
(* whole units.  Prices, profit/loss and balances are whole thousandths    *)
(* (1000 is 1.00, 10 is 0.01), and so is a float threshold (1500 is 1.5).  *)
(* A value the code rounds to d decimals is the integer number of 10^-d    *)
(* units that round() returns (ties to even, as numpy rounds).  Arithmetic *)
(* is exact: binary floating-point error is not modelled.                  *)
(***************************************************************************)
EXTENDS Integers, Sequences, FiniteSets, TLC

VARIABLES
    df,     \* the caller's trade table: [columns, rows]
    last,   \* the most recent call of the engine: [fn, args, out]
    kept    \* a report of an earlier call that the caller still holds

vars == <<df, last, kept>>

---------------------------------------------------------------------------
(* Bounds of the model *)

\* Largest number of rows of a trade table.
MaxTrades == 3

---------------------------------------------------------------------------
(* Numbers *)

Abs(x) == IF x < 0 THEN -x ELSE x

Pow10(d) == CASE d = 0 -> 1 [] d = 1 -> 10 [] d = 2 -> 100 [] d = 3 -> 1000 [] d = 4 -> 10000

\* The integer nearest to p / q (q > 0), a tie going to the even neighbour.
RoundHalfEven(p, q) ==
    LET fl == p \div q
        r2 == 2 * (p - fl * q)
    IN  IF r2 < q THEN fl
        ELSE IF r2 > q THEN fl + 1
        ELSE IF fl % 2 = 0 THEN fl ELSE fl + 1

\* round(p / q, d), as the number of 10^-d units; q # 0.
Round(p, q, d) ==
    IF q > 0 THEN RoundHalfEven(p * Pow10(d), q)
    ELSE RoundHalfEven((-p) * Pow10(d), -q)

RECURSIVE SumOver(_, _)
\* Sum of f[i] over i in 1..Len(f).
SumOver(f, n) == IF n = 0 THEN 0 ELSE f[n] + SumOver(f, n - 1)

Sum(f) == SumOver(f, Len(f))

\* What a float computation gives where no number exists.
NaN == "nan"
Inf == "inf"

---------------------------------------------------------------------------
(* Trade tables *)

Columns == {"timestamp", "buy_sell", "asset", "quantity",
            "entry_price", "exit_price", "profit_loss", "balance"}

Trade(ts, side, asset, qty, entry, exit, pl, bal) ==
    [timestamp |-> ts, buy_sell |-> side, asset |-> asset, quantity |-> qty,
     entry_price |-> entry, exit_price |-> exit, profit_loss |-> pl,
     balance |-> bal]

SeqsUpTo(S, n) == UNION {[1..k -> S] : k \in 0..n}

Table(rows) == [columns |-> Columns, rows |-> rows]

RECURSIVE InsertByTimestamp(_, _)
\* x placed into the sorted sequence s behind every row that is not later.
InsertByTimestamp(s, x) ==
    IF s = <<>> THEN <<x>>
    ELSE IF s[Len(s)].timestamp <= x.timestamp THEN Append(s, x)
    ELSE Append(InsertByTimestamp(SubSeq(s, 1, Len(s) - 1), x), s[Len(s)])

RECURSIVE SortPrefix(_, _)
SortPrefix(rows, n) ==
    IF n = 0 THEN <<>> ELSE InsertByTimestamp(SortPrefix(rows, n - 1), rows[n])

\* A sort that leaves the rows in the order given.
SortByTimestamp_AsGiven(rows) == rows

\* df.sort_values("timestamp").reset_index(drop=True).  Below 16 rows numpy's
\* quicksort is an insertion sort, which keeps rows of equal timestamp in
\* their input order.
SortByTimestamp(rows) == SortPrefix(rows, Len(rows))

---------------------------------------------------------------------------
(* Results *)

EmptyDict == [k \in {} |-> 0]

\* A call that ends in an exception returns nothing.
Raises(exc) == [raised |-> exc]

Returned(out) == "raised" \notin DOMAIN out

\* A result whose reasons list is shared with the previous run_all call.
NewResult_Shared ==
    [flagged |-> FALSE,
     reasons |-> IF last.fn = "run_all" /\ Returned(last.out)
                 THEN last.out.overtrading.reasons ELSE <<>>,
     details |-> EmptyDict, flagged_trades |-> <<>>]

\* result = {"flagged": False, "reasons": [], "details": {}, "flagged_trades": []}
NewResult == [flagged |-> FALSE, reasons |-> <<>>, details |-> EmptyDict,
              flagged_trades |-> <<>>]

---------------------------------------------------------------------------
(* Default thresholds *)

DEFAULT_MAX_TRADES_PER_HOUR == 10
DEFAULT_VOL_BALANCE_RATIO == 3000
DEFAULT_SWITCH_WINDOW_MIN == 30
DEFAULT_MIN_SWITCHES == 3
DEFAULT_LOSS_WIN_RATIO == 1500
DEFAULT_PRICE_RANGE_RATIO == 1500
DEFAULT_REVENGE_QTY_MULT == 1500
\* The revenge window taken from the position-switch window.
DEFAULT_REVENGE_TIME_MIN_AsSwitchWindow == DEFAULT_SWITCH_WINDOW_MIN

DEFAULT_REVENGE_TIME_MIN == 15

---------------------------------------------------------------------------
(* 1. Overtrading detection *)

\* Minutes in a resample("1h") bucket.
Hour == 60

\* The start of the calendar hour a timestamp lies in.
HourStart(ts) == (ts \div Hour) * Hour

\* hourly[h]: the number of rows whose timestamp lies in [h, h + Hour).
HourlySize(s, h) == Cardinality({i \in 1..Len(s) : HourStart(s[i].timestamp) = h})

\* The index of hourly: every hour from the first row's to the last row's.
HourlyIndex(s) ==
    {k * Hour : k \in (s[1].timestamp \div Hour)..(s[Len(s)].timestamp \div Hour)}

\* int(hourly.max())
PeakVal(s) ==
    LET sizes == {HourlySize(s, h) : h \in HourlyIndex(s)}
    IN  CHOOSE v \in sizes : \A u \in sizes : u <= v

\* An index of the maximum that takes the last hour holding it.
PeakHour_Latest(s) ==
    LET peak == PeakVal(s)
        at == {h \in HourlyIndex(s) : HourlySize(s, h) = peak}
    IN  CHOOSE h \in at : \A g \in at : g <= h

\* hourly.idxmax(): the first hour that holds the maximum.
PeakHour(s) ==
    LET peak == PeakVal(s)
        at == {h \in HourlyIndex(s) : HourlySize(s, h) = peak}
    IN  CHOOSE h \in at : \A g \in at : h <= g

\* A clustering test that also fires at the threshold.
ExceedsPerHour_AtLeast(peak_val, max_per_hour) == peak_val >= max_per_hour

\* peak_val > max_per_hour
ExceedsPerHour(peak_val, max_per_hour) == peak_val > max_per_hour

\* Sub-check A, lines 59-72.
CheckClustering(result, s, max_per_hour) ==
    LET peak_val == PeakVal(s)
        peak_hour == PeakHour(s)
        details == [peak_trades_in_hour |-> peak_val, peak_hour |-> peak_hour]
    IN  IF ExceedsPerHour(peak_val, max_per_hour)
        THEN [result EXCEPT !.details = details @@ @, !.flagged = TRUE,
                !.reasons = Append(@, [check |-> "A", peak_val |-> peak_val,
                                       max_per_hour |-> max_per_hour,
                                       peak_hour |-> peak_hour])]
        ELSE [result EXCEPT !.details = details @@ @]

\* df["trade_value"].sum()
TotalVolume(s) == Sum([i \in 1..Len(s) |-> s[i].quantity * s[i].entry_price])

\* A divisor that falls back to 1 for every mean that is not positive.
AvgBalance_PositiveOnly(s, columns) ==
    LET total == Sum([i \in 1..Len(s) |-> s[i].balance])
    IN  IF "balance" \in columns /\ total > 0 THEN <<total, Len(s)>>
        ELSE <<1000, 1>>

\* avg_balance of line 78, as a fraction <<numerator, denominator>> of
\* thousandths: the mean of the balance column, and 1 (1000 thousandths) when
\* the column is absent or its mean is 0.
AvgBalance(s, columns) ==
    LET total == Sum([i \in 1..Len(s) |-> s[i].balance])
    IN  IF "balance" \in columns /\ total # 0 THEN <<total, Len(s)>>
        ELSE <<1000, 1>>

\* round(total_vol / avg_balance, 2), in hundredths.
VolumeBalanceRatio(s, columns) ==
    LET avg == AvgBalance(s, columns)
    IN  Round(TotalVolume(s) * avg[2], avg[1], 2)

\* ratio > max_vol_ratio: ratio in hundredths, the threshold in thousandths.
ExceedsVolRatio(ratio, max_vol_ratio) == ratio * 10 > max_vol_ratio

\* A volume check that gives its reason without raising the flag.
CheckVolume_ReasonOnly(result, s, columns, max_vol_ratio) ==
    IF "entry_price" \in columns /\ "quantity" \in columns
    THEN LET ratio == VolumeBalanceRatio(s, columns)
             details == [volume_balance_ratio |-> ratio]
         IN  IF ExceedsVolRatio(ratio, max_vol_ratio)
             THEN [result EXCEPT !.details = details @@ @,
                     !.reasons = Append(@, [check |-> "B",
                                            total_vol |-> TotalVolume(s),
                                            ratio |-> ratio,
                                            max_vol_ratio |-> max_vol_ratio])]
             ELSE [result EXCEPT !.details = details @@ @]
    ELSE result

\* Sub-check B, lines 74-88.
CheckVolume(result, s, columns, max_vol_ratio) ==
    IF "entry_price" \in columns /\ "quantity" \in columns
    THEN LET ratio == VolumeBalanceRatio(s, columns)
             details == [volume_balance_ratio |-> ratio]
         IN  IF ExceedsVolRatio(ratio, max_vol_ratio)
             THEN [result EXCEPT !.details = details @@ @, !.flagged = TRUE,
                     !.reasons = Append(@, [check |-> "B",
                                            total_vol |-> TotalVolume(s),
                                            ratio |-> ratio,
                                            max_vol_ratio |-> max_vol_ratio])]
             ELSE [result EXCEPT !.details = details @@ @]
    ELSE result

\* sub = df[df["asset"] == asset].reset_index(drop=True)
AssetRows(s, asset) == SelectSeq(s, LAMBDA r : r.asset = asset)

\* df["asset"].unique()
Assets(s) == {s[i].asset : i \in 1..Len(s)}

\* A switch test that also counts a gap equal to the window.
IsRapidSwitch_Inclusive(prev, cur, switch_window_min) ==
    /\ cur.buy_sell # prev.buy_sell
    /\ cur.timestamp - prev.timestamp <= switch_window_min

\* Line 97: opposite sides, and diff_min < switch_window_min.
IsRapidSwitch(prev, cur, switch_window_min) ==
    /\ cur.buy_sell # prev.buy_sell
    /\ cur.timestamp - prev.timestamp < switch_window_min

\* A count over neighbouring rows of the whole table that share an asset.
RapidSwitches_WholeTable(s, switch_window_min) ==
    Cardinality({i \in 2..Len(s) :
        /\ s[i].asset = s[i - 1].asset
        /\ IsRapidSwitch(s[i - 1], s[i], switch_window_min)})

\* Lines 92-98: the switches of every asset's own rows, summed.
RapidSwitches(s, switch_window_min) ==
    Cardinality({p \in Assets(s) \X (2..Len(s)) :
        LET sub == AssetRows(s, p[1])
        IN  /\ p[2] <= Len(sub)
            /\ IsRapidSwitch(sub[p[2] - 1], sub[p[2]], switch_window_min)})

\* A switching test that asks for exactly the minimum.
EnoughSwitches_Exactly(switches, min_switches) == switches = min_switches

\* switches >= min_switches
EnoughSwitches(switches, min_switches) == switches >= min_switches

\* A switching check that is skipped once an earlier sub-check has flagged.
CheckSwitching_UnlessFlagged(result, s, columns, switch_window_min, min_switches) ==
    IF "asset" \in columns /\ "buy_sell" \in columns
    THEN LET switches == RapidSwitches(s, switch_window_min)
             details == [rapid_position_switches |-> switches]
         IN  IF EnoughSwitches(switches, min_switches) /\ ~result.flagged
             THEN [result EXCEPT !.details = details @@ @, !.flagged = TRUE,
                     !.reasons = Append(@, [check |-> "C",
                                            switches |-> switches,
                                            switch_window_min |-> switch_window_min])]
             ELSE [result EXCEPT !.details = details @@ @]
    ELSE result

\* Sub-check C, lines 90-107.
CheckSwitching(result, s, columns, switch_window_min, min_switches) ==
    IF "asset" \in columns /\ "buy_sell" \in columns
    THEN LET switches == RapidSwitches(s, switch_window_min)
             details == [rapid_position_switches |-> switches]
         IN  IF EnoughSwitches(switches, min_switches)
             THEN [result EXCEPT !.details = details @@ @, !.flagged = TRUE,
                     !.reasons = Append(@, [check |-> "C",
                                            switches |-> switches,
                                            switch_window_min |-> switch_window_min])]
             ELSE [result EXCEPT !.details = details @@ @]
    ELSE result

detect_overtrading(d, max_per_hour, max_vol_ratio, switch_window_min, min_switches) ==
    IF "timestamp" \notin d.columns THEN Raises("KeyError")
    \* int(hourly.max()) of an empty table is int(NaN)
    ELSE IF d.rows = <<>> THEN Raises("ValueError")
    ELSE
    LET s == SortByTimestamp(d.rows)
        a == CheckClustering(NewResult, s, max_per_hour)
        b == CheckVolume(a, s, d.columns, max_vol_ratio)
    IN  CheckSwitching(b, s, d.columns, switch_window_min, min_switches)

---------------------------------------------------------------------------
(* 2. Loss aversion detection *)

\* The rows of df[df["profit_loss"] > 0] and of df[df["profit_loss"] < 0].
Winners(rows) == SelectSeq(rows, LAMBDA r : r.profit_loss > 0)

\* A selection of losers that takes the flat trades in.
Losers_WithFlat(rows) == SelectSeq(rows, LAMBDA r : r.profit_loss <= 0)

Losers(rows) == SelectSeq(rows, LAMBDA r : r.profit_loss < 0)

\* winners, losers: the profit_loss column of each selection, losses as .abs()
Profits(sel) == [i \in 1..Len(sel) |-> Abs(sel[i].profit_loss)]

\* df2["price_range"] of a selection
PriceRanges(sel) ==
    [i \in 1..Len(sel) |-> Abs(sel[i].exit_price - sel[i].entry_price)]

\* round(<values>.mean(), 2) of a non-empty sequence of thousandths, in
\* hundredths.
RoundedMean(values) == Round(Sum(values), Len(values) * 1000, 2)

\* round(avg_loss / avg_win, 2) if avg_win > 0 else 0 (lines 136 and 159):
\* the quotient of the two rounded means, in hundredths.
GuardedRatio(avg_loss, avg_win) ==
    IF avg_win > 0 THEN Round(avg_loss, avg_win, 2) ELSE 0

\* ratio > threshold: the ratio in hundredths, the threshold in thousandths.
ExceedsRatio(ratio, threshold) == ratio * 10 > threshold

\* Sub-check A, lines 134-150.
CheckMagnitude(result, rows, ratio_threshold) ==
    LET winners == Profits(Winners(rows))
        losers == Profits(Losers(rows))
        avg_win == RoundedMean(winners)
        avg_loss == RoundedMean(losers)
        ratio == GuardedRatio(avg_loss, avg_win)
        details == [avg_win |-> avg_win, avg_loss |-> avg_loss,
                    loss_win_ratio |-> ratio,
                    total_winners |-> Len(winners),
                    total_losers |-> Len(losers)]
    IN  IF ExceedsRatio(ratio, ratio_threshold)
        THEN [result EXCEPT !.details = details @@ @, !.flagged = TRUE,
                !.reasons = Append(@, [check |-> "A", avg_loss |-> avg_loss,
                                       ratio |-> ratio, avg_win |-> avg_win,
                                       ratio_threshold |-> ratio_threshold])]
        ELSE [result EXCEPT !.details = details @@ @]

\* Sub-check B, lines 152-171.
CheckPriceRange(result, rows, columns, price_range_ratio) ==
    IF "entry_price" \in columns /\ "exit_price" \in columns
    THEN LET avg_range_win == RoundedMean(PriceRanges(Winners(rows)))
             avg_range_loss == RoundedMean(PriceRanges(Losers(rows)))
             range_ratio == GuardedRatio(avg_range_loss, avg_range_win)
             details == [avg_price_move_winners |-> avg_range_win,
                         avg_price_move_losers |-> avg_range_loss,
                         price_range_ratio |-> range_ratio]
         IN  IF ExceedsRatio(range_ratio, price_range_ratio)
             THEN [result EXCEPT !.details = details @@ @, !.flagged = TRUE,
                     !.reasons = Append(@, [check |-> "B",
                                            range_ratio |-> range_ratio,
                                            avg_range_loss |-> avg_range_loss,
                                            avg_range_win |-> avg_range_win])]
             ELSE [result EXCEPT !.details = details @@ @]
    ELSE result

\* A detector whose guard looks at the winners only: without losers the
\* means of the losers are NaN, nothing compares greater, and no note is set.
detect_loss_aversion_WinnersOnly(d, ratio_threshold, price_range_ratio) ==
    IF "profit_loss" \notin d.columns THEN Raises("KeyError")
    ELSE IF Winners(d.rows) = <<>>
    THEN [NewResult EXCEPT !.details = [note |-> "insufficient data"]]
    ELSE IF Losers(d.rows) = <<>>
    THEN [NewResult EXCEPT !.details =
             [avg_win |-> RoundedMean(Profits(Winners(d.rows))),
              avg_loss |-> NaN, loss_win_ratio |-> NaN,
              total_winners |-> Len(Winners(d.rows)), total_losers |-> 0]]
    ELSE CheckPriceRange(CheckMagnitude(NewResult, d.rows, ratio_threshold),
                         d.rows, d.columns, price_range_ratio)

detect_loss_aversion(d, ratio_threshold, price_range_ratio) ==
    IF "profit_loss" \notin d.columns THEN Raises("KeyError")
    ELSE IF Winners(d.rows) = <<>> \/ Losers(d.rows) = <<>>
    THEN [NewResult EXCEPT !.details = [note |-> "insufficient data"]]
    ELSE CheckPriceRange(CheckMagnitude(NewResult, d.rows, ratio_threshold),
                         d.rows, d.columns, price_range_ratio)

---------------------------------------------------------------------------
(* 3. Revenge trading detection *)

\* A roll instead of a shift: the first row is aligned with the last.
ShiftedIndex_Roll(s, i) == IF i = 1 THEN Len(s) ELSE i - 1

\* shift(1): row i is aligned with row i - 1; the first row gets no row
\* (index 0), which pandas fills with NaN / NaT.
ShiftedIndex(s, i) == i - 1

\* df["prev_pl"] < 0; NaN < 0 is False.
PrevIsLoss(s, i) ==
    ShiftedIndex(s, i) >= 1 /\ s[ShiftedIndex(s, i)].profit_loss < 0

\* A size test that also holds at the multiple itself.
Oversized_AtLeast(qty, total, n, qty_multiplier) ==
    qty * n * 1000 >= total * qty_multiplier

\* df["quantity"] > avg_qty * qty_multiplier, avg_qty the mean of all n
\* quantities (their sum / n) and qty_multiplier in thousandths.
Oversized(qty, total, n, qty_multiplier) ==
    qty * n * 1000 > total * qty_multiplier

\* df["time_since_prev"], in minutes, of a row that has a previous row.
TimeSincePrev(s, i) == s[i].timestamp - s[ShiftedIndex(s, i)].timestamp

\* df["time_since_prev"] <= time_window_min; a comparison with NaT is False.
WithinWindow(s, i, time_window_min) ==
    ShiftedIndex(s, i) >= 1 /\ TimeSincePrev(s, i) <= time_window_min

\* The docstring's reading: after a loss, oversized and/or inside the window.
RevengeMask_AndOr(s, i, qty_multiplier, time_window_min) ==
    /\ PrevIsLoss(s, i)
    /\ \/ Oversized(s[i].quantity, Sum([k \in 1..Len(s) |-> s[k].quantity]),
                    Len(s), qty_multiplier)
       \/ WithinWindow(s, i, time_window_min)

\* A detector that skips the trade after a flagged one.
RevengeMask_Cooldown(s, i, qty_multiplier, time_window_min) ==
    LET total == Sum([k \in 1..Len(s) |-> s[k].quantity])
        hit(j) == /\ PrevIsLoss(s, j)
                  /\ Oversized(s[j].quantity, total, Len(s), qty_multiplier)
                  /\ WithinWindow(s, j, time_window_min)
    IN  hit(i) /\ ~(i > 1 /\ hit(i - 1))

\* The row mask of lines 210-214.
RevengeMask(s, i, qty_multiplier, time_window_min) ==
    /\ PrevIsLoss(s, i)
    /\ Oversized(s[i].quantity, Sum([k \in 1..Len(s) |-> s[k].quantity]),
                 Len(s), qty_multiplier)
    /\ WithinWindow(s, i, time_window_min)

\* One entry of result["flagged_trades"], for row i of the sorted table.
RevengeRecord(s, i, columns) ==
    LET n == Len(s)
        total == Sum([k \in 1..n |-> s[k].quantity])
    IN  [timestamp |-> s[i].timestamp,
         asset |-> IF "asset" \in columns THEN s[i].asset ELSE "N/A",
         quantity |-> Round(s[i].quantity, 1, 4),
         avg_quantity |-> Round(total, n, 4),
         size_vs_avg |-> IF total = 0 THEN Inf
                         ELSE Round(s[i].quantity * n, total, 1),
         prev_loss |-> Round(s[ShiftedIndex(s, i)].profit_loss, 1000, 2),
         mins_after_loss |-> Round(TimeSincePrev(s, i), 1, 1)]

\* The rows of flagged_df, in table order, as records.
FlaggedTrades(s, columns, qty_multiplier, time_window_min) ==
    LET idx == SelectSeq([i \in 1..Len(s) |-> i],
                         LAMBDA i : RevengeMask(s, i, qty_multiplier,
                                                time_window_min))
    IN  [k \in 1..Len(idx) |-> RevengeRecord(s, idx[k], columns)]

\* A summary that needs more than one revenge trade to flag.
RevengeSummary_OffByOne(result, avg, qty_multiplier, time_window_min) ==
    LET count == Len(result.flagged_trades)
        details == [average_quantity |-> avg,
                    revenge_trade_count |-> count,
                    time_window_minutes |-> time_window_min,
                    qty_multiplier_used |-> qty_multiplier]
    IN  IF count > 1
        THEN [result EXCEPT !.details = details, !.flagged = TRUE,
                !.reasons = <<[check |-> "revenge", count |-> count,
                               qty_multiplier |-> qty_multiplier,
                               time_window_min |-> time_window_min]>>]
        ELSE [result EXCEPT !.details = details]

\* Lines 228-238: the count, the flag and the reason.
RevengeSummary(result, avg, qty_multiplier, time_window_min) ==
    LET count == Len(result.flagged_trades)
        details == [average_quantity |-> avg,
                    revenge_trade_count |-> count,
                    time_window_minutes |-> time_window_min,
                    qty_multiplier_used |-> qty_multiplier]
    IN  IF count > 0
        THEN [result EXCEPT !.details = details, !.flagged = TRUE,
                !.reasons = <<[check |-> "revenge", count |-> count,
                               qty_multiplier |-> qty_multiplier,
                               time_window_min |-> time_window_min]>>]
        ELSE [result EXCEPT !.details = details]

detect_revenge_trading(d, qty_multiplier, time_window_min) ==
    IF "timestamp" \notin d.columns THEN Raises("KeyError")
    ELSE IF "quantity" \notin d.columns
    THEN [NewResult EXCEPT !.details = [note |-> "no quantity column"]]
    ELSE IF "profit_loss" \notin d.columns THEN Raises("KeyError")
    ELSE
    LET s == SortByTimestamp(d.rows)
        n == Len(s)
        avg == IF n = 0 THEN NaN
               ELSE Round(Sum([k \in 1..n |-> s[k].quantity]), n, 4)
        found == [NewResult EXCEPT !.flagged_trades =
                     FlaggedTrades(s, d.columns, qty_multiplier,
                                   time_window_min)]
    IN  RevengeSummary(found, avg, qty_multiplier, time_window_min)

---------------------------------------------------------------------------
(* Convenience: run all three at once *)

\* Lines 255-259: the three detectors in turn, each on the caller's table;
\* the first exception ends the call.
run_all(d, max_per_hour, max_vol_ratio, loss_win_ratio, revenge_mult, revenge_time_min) ==
    LET ot == detect_overtrading(d, max_per_hour, max_vol_ratio,
                                 DEFAULT_SWITCH_WINDOW_MIN,
                                 DEFAULT_MIN_SWITCHES)
        la == detect_loss_aversion(d, loss_win_ratio,
                                   DEFAULT_PRICE_RANGE_RATIO)
        rt == detect_revenge_trading(d, revenge_mult, revenge_time_min)
    IN  IF ~Returned(ot) THEN ot
        ELSE IF ~Returned(la) THEN la
        ELSE IF ~Returned(rt) THEN rt
        ELSE [overtrading |-> ot, loss_aversion |-> la,
              revenge_trading |-> rt]

---------------------------------------------------------------------------
(* The caller *)

NoCall == [fn |-> "none"]

\* Thresholds a caller passes to detect_revenge_trading.
QtyMultipliers == {1000, DEFAULT_REVENGE_QTY_MULT}
TimeWindows == {DEFAULT_REVENGE_TIME_MIN, 2 * DEFAULT_REVENGE_TIME_MIN}

CallRevenge ==
    \E m \in QtyMultipliers, w \in TimeWindows :
        /\ last' = [fn |-> "detect_revenge_trading",
                    args |-> [qty_multiplier |-> m, time_window_min |-> w],
                    out |-> detect_revenge_trading(df, m, w)]
        /\ UNCHANGED <<df, kept>>

---------------------------------------------------------------------------
(* Revenge trading: tables whose timestamp, quantity and profit_loss vary *)

RevengeTimes == {0, 15, 30}
RevengeQuantities == {1, 3}
RevengeProfits == {-1000, 0, 1000}

RevengeTrades ==
    {Trade(ts, "Buy", "AAPL", q, 1000, 1000, pl, 1000) :
        ts \in RevengeTimes, q \in RevengeQuantities, pl \in RevengeProfits}

InitRevenge ==
    /\ df \in {Table(r) : r \in SeqsUpTo(RevengeTrades, MaxTrades)}
    /\ last = NoCall
    /\ kept = NoCall

NextRevenge == CallRevenge

SpecRevenge == InitRevenge /\ [][NextRevenge]_vars

---------------------------------------------------------------------------
(* Overtrading: tables whose timestamp, side and asset vary *)

\* Thresholds a caller passes to detect_overtrading.
MaxPerHours == {1, 2}
MaxVolRatios == {667, DEFAULT_VOL_BALANCE_RATIO}
SwitchWindows == {DEFAULT_SWITCH_WINDOW_MIN}
MinSwitches == {1, 2}

\* A call of detect_overtrading with thresholds drawn from the given sets.
CallOvertradingWith(H, V, W, M) ==
    \E h \in H, v \in V, w \in W, m \in M :
        /\ last' = [fn |-> "detect_overtrading",
                    args |-> [max_per_hour |-> h, max_vol_ratio |-> v,
                              switch_window_min |-> w, min_switches |-> m],
                    out |-> detect_overtrading(df, h, v, w, m)]
        /\ UNCHANGED <<df, kept>>

OvertradingTimes == {15, 45, 60}
Sides == {"Buy", "Sell"}
AssetNames == {"AAPL", "MSFT"}

OvertradingTrades ==
    {Trade(ts, side, asset, 1, 1000, 1000, 0, 1000) :
        ts \in OvertradingTimes, side \in Sides, asset \in AssetNames}

InitOvertrading ==
    /\ df \in {Table(r) : r \in SeqsUpTo(OvertradingTrades, MaxTrades)}
    /\ last = NoCall
    /\ kept = NoCall

\* The caller varies the hourly and the switching thresholds.
CallOvertrading ==
    CallOvertradingWith(MaxPerHours, {DEFAULT_VOL_BALANCE_RATIO},
                        SwitchWindows, MinSwitches)

NextOvertrading == CallOvertrading

SpecOvertrading == InitOvertrading /\ [][NextOvertrading]_vars

---------------------------------------------------------------------------
(* Overtrading: tables whose quantity and balance vary *)

VolumeQuantities == {1, 2, 3}
VolumeBalances == {-1000, 0, 1000, 3000}

VolumeTrades ==
    {Trade(0, "Buy", "AAPL", q, 1000, 1000, 0, b) :
        q \in VolumeQuantities, b \in VolumeBalances}

InitVolume ==
    /\ df \in {Table(r) : r \in SeqsUpTo(VolumeTrades, MaxTrades)}
    /\ last = NoCall
    /\ kept = NoCall

\* The caller varies the hourly and the volume thresholds.
CallOvertradingVolume ==
    CallOvertradingWith(MaxPerHours, MaxVolRatios,
                        {DEFAULT_SWITCH_WINDOW_MIN}, {DEFAULT_MIN_SWITCHES})

NextVolume == CallOvertradingVolume

SpecVolume == InitVolume /\ [][NextVolume]_vars

---------------------------------------------------------------------------
(* Loss aversion: tables whose profit_loss and exit_price vary *)

\* Largest number of rows of a table given to detect_loss_aversion.
MaxLossTrades == 4

\* Thresholds a caller passes to detect_loss_aversion.
RatioThresholds == {DEFAULT_LOSS_WIN_RATIO, 2000}
PriceRangeRatios == {DEFAULT_PRICE_RANGE_RATIO}

CallLossAversion ==
    \E t \in RatioThresholds, p \in PriceRangeRatios :
        /\ last' = [fn |-> "detect_loss_aversion",
                    args |-> [ratio_threshold |-> t, price_range_ratio |-> p],
                    out |-> detect_loss_aversion(df, t, p)]
        /\ UNCHANGED <<df, kept>>

LossProfits == {-20, 0, 10, 20}
LossExitPrices == {1000, 1010}

LossTrades ==
    {Trade(0, "Buy", "AAPL", 1, 1000, x, pl, 1000) :
        x \in LossExitPrices, pl \in LossProfits}

InitLoss ==
    /\ df \in {Table(r) : r \in SeqsUpTo(LossTrades, MaxLossTrades)}
    /\ last = NoCall
    /\ kept = NoCall

NextLoss == CallLossAversion

SpecLoss == InitLoss /\ [][NextLoss]_vars

---------------------------------------------------------------------------
(* run_all: a caller that loads tables, runs the aggregator and keeps reports *)

\* Thresholds a caller passes to run_all.
RunAllArgs ==
    [max_per_hour : {1, 2},
     max_vol_ratio : {DEFAULT_VOL_BALANCE_RATIO},
     loss_win_ratio : {DEFAULT_LOSS_WIN_RATIO},
     revenge_mult : {1000, DEFAULT_REVENGE_QTY_MULT},
     revenge_time_min : {DEFAULT_REVENGE_TIME_MIN}]

\* A small loss, and a larger winning trade of the other side soon after.
RunAllTrades ==
    {Trade(15, "Buy", "AAPL", 1, 1000, 990, -20, 1000),
     Trade(30, "Sell", "AAPL", 3, 1000, 1010, 10, 1000)}

\* Largest number of rows of a table given to run_all.
MaxRunAllTrades == 2

RunAllTables == {Table(r) : r \in SeqsUpTo(RunAllTrades, MaxRunAllTrades)}

InitRunAll ==
    /\ df \in RunAllTables
    /\ last = NoCall
    /\ kept = NoCall

\* The caller replaces its table (a new upload).
Load ==
    /\ df' \in RunAllTables \ {df}
    /\ UNCHANGED <<last, kept>>

\* biases = run_all(df, ...)
CallRunAll ==
    \E a \in RunAllArgs :
        /\ last' = [fn |-> "run_all", args |-> a, input |-> df,
                    out |-> run_all(df, a.max_per_hour, a.max_vol_ratio,
                                    a.loss_win_ratio, a.revenge_mult,
                                    a.revenge_time_min)]
        /\ UNCHANGED <<df, kept>>

\* The caller holds on to the report it just received.
Retain ==
    /\ last.fn = "run_all"
    /\ kept' = last
    /\ UNCHANGED <<df, last>>

NextRunAll == Load \/ CallRunAll \/ Retain

SpecRunAll == InitRunAll /\ [][NextRunAll]_vars

---------------------------------------------------------------------------
(* run_all: a caller that holds a value for each of the eight thresholds *)

\* The configurations a caller may hold.
ThresholdConfigs ==
    [max_per_hour : {1, 2},
     max_vol_ratio : {DEFAULT_VOL_BALANCE_RATIO},
     switch_window_min : {10, DEFAULT_SWITCH_WINDOW_MIN},
     min_switches : {1, DEFAULT_MIN_SWITCHES},
     loss_win_ratio : {DEFAULT_LOSS_WIN_RATIO},
     price_range_ratio : {1000, DEFAULT_PRICE_RANGE_RATIO},
     revenge_mult : {DEFAULT_REVENGE_QTY_MULT},
     revenge_time_min : {DEFAULT_REVENGE_TIME_MIN}]

InitConfig ==
    /\ df \in RunAllTables
    /\ last = NoCall
    /\ kept = NoCall

\* The caller gives run_all every threshold that its signature (lines
\* 248-252) accepts; the configuration it holds is recorded as args.
CallRunAllConfigured ==
    \E c \in ThresholdConfigs :
        /\ last' = [fn |-> "run_all", args |-> c, input |-> df,
                    out |-> run_all(df, c.max_per_hour, c.max_vol_ratio,
                                    c.loss_win_ratio, c.revenge_mult,
                                    c.revenge_time_min)]
        /\ UNCHANGED <<df, kept>>

NextConfig == CallRunAllConfigured

SpecConfig == InitConfig /\ [][NextConfig]_vars

---------------------------------------------------------------------------
(* The caller's table and the detectors' scratch tables *)

\* A local name of a detector: the table the name is bound to (local), the
\* caller's table (caller), and whether the two are one object (shared).
Frame(d) == [caller |-> d, local |-> d, shared |-> TRUE]

\* A copy that is the object itself.
CopyOf_Alias(f) == f

\* df.copy(): a new object with the same contents.
CopyOf(f) == [f EXCEPT !.shared = FALSE]

\* sort_values("timestamp").reset_index(drop=True): a new, sorted object.
SortedOf(f) ==
    [caller |-> f.caller,
     local |-> [f.local EXCEPT !.rows = SortByTimestamp(@)],
     shared |-> FALSE]

\* df[col] = values: a column written into the object the name is bound to.
SetColumn(f, col, values) ==
    LET t == [columns |-> f.local.columns \cup {col},
              rows |-> [i \in 1..Len(f.local.rows) |->
                           (col :> values[i]) @@ f.local.rows[i]]]
    IN  [caller |-> IF f.shared THEN t ELSE f.caller,
         local |-> t,
         shared |-> f.shared]

\* detect_overtrading, lines 55-57 and 76: the copy, the parsed timestamp
\* column (a timestamp is modelled by its instant), the sort, trade_value.
OvertradingScratch(d) ==
    LET c == CopyOf(Frame(d))
    IN  IF "timestamp" \notin d.columns THEN c
        ELSE
        LET t == SetColumn(c, "timestamp",
                     [i \in 1..Len(c.local.rows) |-> c.local.rows[i].timestamp])
            s == SortedOf(t)
        IN  IF d.rows = <<>> THEN s
            ELSE IF "entry_price" \in d.columns /\ "quantity" \in d.columns
            THEN SetColumn(s, "trade_value",
                     [i \in 1..Len(s.local.rows) |->
                         s.local.rows[i].quantity * s.local.rows[i].entry_price])
            ELSE s

\* detect_loss_aversion, lines 154-155: df2 and its price_range column.
LossAversionScratch(d) ==
    IF "profit_loss" \notin d.columns THEN Frame(d)
    ELSE IF Winners(d.rows) = <<>> \/ Losers(d.rows) = <<>> THEN Frame(d)
    ELSE IF "entry_price" \in d.columns /\ "exit_price" \in d.columns
    THEN LET df2 == CopyOf(Frame(d))
         IN  SetColumn(df2, "price_range", PriceRanges(df2.local.rows))
    ELSE Frame(d)

\* detect_revenge_trading, lines 192 and 202-204: the sorted copy and its
\* prev_pl, prev_ts and time_since_prev columns.
RevengeScratch(d) ==
    LET c == CopyOf(Frame(d))
    IN  IF "timestamp" \notin d.columns THEN c
        ELSE
        LET s == SortedOf(c)
            rows == s.local.rows
            n == Len(rows)
            has(i) == ShiftedIndex(rows, i) >= 1
        IN  IF "quantity" \notin d.columns \/ "profit_loss" \notin d.columns
            THEN s
            ELSE
            LET p == SetColumn(s, "prev_pl",
                         [i \in 1..n |->
                             IF has(i)
                             THEN rows[ShiftedIndex(rows, i)].profit_loss
                             ELSE NaN])
                q == SetColumn(p, "prev_ts",
                         [i \in 1..n |->
                             IF has(i)
                             THEN rows[ShiftedIndex(rows, i)].timestamp
                             ELSE NaN])
            IN  SetColumn(q, "time_since_prev",
                    [i \in 1..n |->
                        IF has(i) THEN TimeSincePrev(rows, i) ELSE NaN])

\* run_all, lines 256-258: the caller's table as the three calls leave it,
\* each call receiving the table the call before it left.
RunAllScratch(d) ==
    LET a == OvertradingScratch(d).caller
        b == LossAversionScratch(a).caller
    IN  IF ~Returned(detect_overtrading(d, DEFAULT_MAX_TRADES_PER_HOUR,
                         DEFAULT_VOL_BALANCE_RATIO, DEFAULT_SWITCH_WINDOW_MIN,
                         DEFAULT_MIN_SWITCHES))
        THEN a
        ELSE IF ~Returned(detect_loss_aversion(a, DEFAULT_LOSS_WIN_RATIO,
                              DEFAULT_PRICE_RANGE_RATIO))
        THEN b
        ELSE RevengeScratch(b).caller

---------------------------------------------------------------------------
(* The engine on tables that lack columns or hold degenerate values *)

\* A loss; an oversized winner soon after it, on a negative balance; a flat
\* trade of quantity zero on a zero balance.
EngineTrades ==
    {Trade(0, "Buy", "AAPL", 1, 1000, 990, -1000, 1000),
     Trade(10, "Sell", "AAPL", 3, 1000, 1010, 1000, -1000),
     Trade(20, "Buy", "AAPL", 0, 1000, 1000, 0, 0)}

\* Largest number of rows of these tables.
MaxEngineTrades == 2

\* Largest number of columns that a table lacks.
MaxMissing == 2

\* The columns a loaded table may have.
ColumnSets ==
    {Columns \ m : m \in {x \in SUBSET Columns : Cardinality(x) <= MaxMissing}}

Project(row, cols) == [c \in cols |-> row[c]]

EngineTables ==
    {[columns |-> cols,
      rows |-> [i \in 1..Len(r) |-> Project(r[i], cols)]] :
        cols \in ColumnSets, r \in SeqsUpTo(EngineTrades, MaxEngineTrades)}

\* The caller loads a table and keeps a snapshot of what it loaded.
InitEngine ==
    /\ df \in EngineTables
    /\ last = NoCall
    /\ kept = [fn |-> "load", table |-> df]

EngineOvertrading ==
    \E h \in MaxPerHours :
        /\ last' = [fn |-> "detect_overtrading",
                    args |-> [max_per_hour |-> h,
                              max_vol_ratio |-> DEFAULT_VOL_BALANCE_RATIO,
                              switch_window_min |-> DEFAULT_SWITCH_WINDOW_MIN,
                              min_switches |-> DEFAULT_MIN_SWITCHES],
                    input |-> df,
                    out |-> detect_overtrading(df, h,
                                DEFAULT_VOL_BALANCE_RATIO,
                                DEFAULT_SWITCH_WINDOW_MIN,
                                DEFAULT_MIN_SWITCHES)]
        /\ df' = OvertradingScratch(df).caller
        /\ UNCHANGED kept

EngineLossAversion ==
    /\ last' = [fn |-> "detect_loss_aversion",
                args |-> [ratio_threshold |-> DEFAULT_LOSS_WIN_RATIO,
                          price_range_ratio |-> DEFAULT_PRICE_RANGE_RATIO],
                input |-> df,
                out |-> detect_loss_aversion(df, DEFAULT_LOSS_WIN_RATIO,
                                             DEFAULT_PRICE_RANGE_RATIO)]
    /\ df' = LossAversionScratch(df).caller
    /\ UNCHANGED kept

EngineRevenge ==
    \E m \in QtyMultipliers :
        /\ last' = [fn |-> "detect_revenge_trading",
                    args |-> [qty_multiplier |-> m,
                              time_window_min |-> DEFAULT_REVENGE_TIME_MIN],
                    input |-> df,
                    out |-> detect_revenge_trading(df, m,
                                                   DEFAULT_REVENGE_TIME_MIN)]
        /\ df' = RevengeScratch(df).caller
        /\ UNCHANGED kept

EngineRunAll ==
    \E m \in QtyMultipliers :
        /\ last' = [fn |-> "run_all",
                    args |-> [max_per_hour |-> DEFAULT_MAX_TRADES_PER_HOUR,
                              max_vol_ratio |-> DEFAULT_VOL_BALANCE_RATIO,
                              loss_win_ratio |-> DEFAULT_LOSS_WIN_RATIO,
                              revenge_mult |-> m,
                              revenge_time_min |-> DEFAULT_REVENGE_TIME_MIN],
                    input |-> df,
                    out |-> run_all(df, DEFAULT_MAX_TRADES_PER_HOUR,
                                    DEFAULT_VOL_BALANCE_RATIO,
                                    DEFAULT_LOSS_WIN_RATIO, m,
                                    DEFAULT_REVENGE_TIME_MIN)]
        /\ df' = RunAllScratch(df)
        /\ UNCHANGED kept

NextEngine ==
    \/ EngineOvertrading
    \/ EngineLossAversion
    \/ EngineRevenge
    \/ EngineRunAll

SpecEngine == InitEngine /\ [][NextEngine]_vars

---------------------------------------------------------------------------
(* Overtrading: tables on which each of the three sub-checks may trigger *)

SubcheckTimes == {15, 30}
SubcheckQuantities == {1, 2}

SubcheckTrades ==
    {Trade(ts, side, "AAPL", q, 1000, 1000, 0, 1000) :
        ts \in SubcheckTimes, side \in Sides, q \in SubcheckQuantities}

InitSubchecks ==
    /\ df \in {Table(r) : r \in SeqsUpTo(SubcheckTrades, MaxTrades)}
    /\ last = NoCall
    /\ kept = NoCall

\* The caller varies the hourly, the volume and the switching thresholds.
CallOvertradingSubchecks ==
    CallOvertradingWith(MaxPerHours, MaxVolRatios,
                        {DEFAULT_SWITCH_WINDOW_MIN}, MinSwitches)

NextSubchecks == CallOvertradingSubchecks

SpecSubchecks == InitSubchecks /\ [][NextSubchecks]_vars

---------------------------------------------------------------------------
(* Calls that leave thresholds to their defaults *)

\* The value a parameter is bound to: the keyword argument when the caller
\* gives one, the default of the signature otherwise.
Arg(kw, name, default) == IF name \in DOMAIN kw THEN kw[name] ELSE default

\* detect_overtrading(df, **kw), lines 40-46.
detect_overtrading_kw(d, kw) ==
    detect_overtrading(d,
        Arg(kw, "max_per_hour", DEFAULT_MAX_TRADES_PER_HOUR),
        Arg(kw, "max_vol_ratio", DEFAULT_VOL_BALANCE_RATIO),
        Arg(kw, "switch_window_min", DEFAULT_SWITCH_WINDOW_MIN),
        Arg(kw, "min_switches", DEFAULT_MIN_SWITCHES))

\* detect_loss_aversion(df, **kw), lines 115-119.
detect_loss_aversion_kw(d, kw) ==
    detect_loss_aversion(d,
        Arg(kw, "ratio_threshold", DEFAULT_LOSS_WIN_RATIO),
        Arg(kw, "price_range_ratio", DEFAULT_PRICE_RANGE_RATIO))

\* detect_revenge_trading(df, **kw), lines 179-183.
detect_revenge_trading_kw(d, kw) ==
    detect_revenge_trading(d,
        Arg(kw, "qty_multiplier", DEFAULT_REVENGE_QTY_MULT),
        Arg(kw, "time_window_min", DEFAULT_REVENGE_TIME_MIN))

\* run_all(df, **kw), lines 246-253.
run_all_kw(d, kw) ==
    run_all(d,
        Arg(kw, "max_per_hour", DEFAULT_MAX_TRADES_PER_HOUR),
        Arg(kw, "max_vol_ratio", DEFAULT_VOL_BALANCE_RATIO),
        Arg(kw, "loss_win_ratio", DEFAULT_LOSS_WIN_RATIO),
        Arg(kw, "revenge_mult", DEFAULT_REVENGE_QTY_MULT),
        Arg(kw, "revenge_time_min", DEFAULT_REVENGE_TIME_MIN))

Functions ==
    {"detect_overtrading", "detect_loss_aversion", "detect_revenge_trading",
     "run_all"}

\* The keyword parameters of each function.
Parameters(fn) ==
    CASE fn = "detect_overtrading" ->
             {"max_per_hour", "max_vol_ratio", "switch_window_min",
              "min_switches"}
      [] fn = "detect_loss_aversion" ->
             {"ratio_threshold", "price_range_ratio"}
      [] fn = "detect_revenge_trading" ->
             {"qty_multiplier", "time_window_min"}
      [] fn = "run_all" ->
             {"max_per_hour", "max_vol_ratio", "loss_win_ratio",
              "revenge_mult", "revenge_time_min"}

\* The value a caller overrides a parameter with: none is the default.
Override(name) ==
    CASE name = "max_per_hour" -> 1
      [] name = "max_vol_ratio" -> 1000
      [] name = "switch_window_min" -> 10
      [] name = "min_switches" -> 1
      [] name \in {"ratio_threshold", "loss_win_ratio"} -> 1000
      [] name = "price_range_ratio" -> 500
      [] name \in {"qty_multiplier", "revenge_mult"} -> 1000
      [] name \in {"time_window_min", "revenge_time_min"} -> 5

\* No keyword argument, or one.
Keywords(fn) == {EmptyDict} \cup {n :> Override(n) : n \in Parameters(fn)}

Apply(fn, d, kw) ==
    CASE fn = "detect_overtrading" -> detect_overtrading_kw(d, kw)
      [] fn = "detect_loss_aversion" -> detect_loss_aversion_kw(d, kw)
      [] fn = "detect_revenge_trading" -> detect_revenge_trading_kw(d, kw)
      [] fn = "run_all" -> run_all_kw(d, kw)

\* Largest number of trades within one hour.
MaxBusyTrades == 11

\* k trades a minute apart, of alternating sides.
BusyHour(k) ==
    [i \in 1..k |->
        Trade(i, IF i % 2 = 0 THEN "Sell" ELSE "Buy", "AAPL", 1, 1000, 1000,
              0, 4000)]

DefaultsTables ==
    RunAllTables \cup {Table(BusyHour(k)) : k \in 1..MaxBusyTrades}

InitDefaults ==
    /\ df \in DefaultsTables
    /\ last = NoCall
    /\ kept = NoCall

CallWithKeywords ==
    \E fn \in Functions :
        \E kw \in Keywords(fn) :
            /\ last' = [fn |-> fn, args |-> kw, input |-> df,
                        out |-> Apply(fn, df, kw)]
            /\ UNCHANGED <<df, kept>>

NextDefaults == CallWithKeywords

SpecDefaults == InitDefaults /\ [][NextDefaults]_vars

---------------------------------------------------------------------------
(* The three detectors on one table: losses, wins and flat trades of
   several sizes, ten minutes apart, in any row order *)

MixedTimes == {0, 10, 20}

\* A small loss, a win, a flat trade and a large loss.
MixedKinds ==
    {[side |-> "Buy", qty |-> 1, exit |-> 980, pl |-> -20],
     [side |-> "Sell", qty |-> 3, exit |-> 1010, pl |-> 10],
     [side |-> "Buy", qty |-> 3, exit |-> 1000, pl |-> 0],
     [side |-> "Sell", qty |-> 4, exit |-> 980, pl |-> -20]}

MixedTrades ==
    {Trade(ts, k.side, "AAPL", k.qty, 1000, k.exit, k.pl, 1000) :
        ts \in MixedTimes, k \in MixedKinds}

MixedMaxPerHours == {1, 3}
MixedVolRatios == {DEFAULT_VOL_BALANCE_RATIO, 8000}
MixedSwitchWindows == {10, 15}
MixedMinSwitches == {1, 2}
MixedRatioThresholds == {DEFAULT_LOSS_WIN_RATIO, 2000}
MixedPriceRangeRatios == {DEFAULT_PRICE_RANGE_RATIO, 2000}

InitMixed ==
    /\ df \in {Table(r) : r \in SeqsUpTo(MixedTrades, MaxTrades)}
    /\ last = NoCall
    /\ kept = NoCall

MixedOvertrading ==
    CallOvertradingWith(MixedMaxPerHours, MixedVolRatios,
                        MixedSwitchWindows, MixedMinSwitches)

MixedLossAversion ==
    \E t \in MixedRatioThresholds, p \in MixedPriceRangeRatios :
        /\ last' = [fn |-> "detect_loss_aversion",
                    args |-> [ratio_threshold |-> t, price_range_ratio |-> p],
                    out |-> detect_loss_aversion(df, t, p)]
        /\ UNCHANGED <<df, kept>>

NextMixed == MixedOvertrading \/ MixedLossAversion \/ CallRevenge

SpecMixed == InitMixed /\ [][NextMixed]_vars

---------------------------------------------------------------------------
(* Loss aversion: tables with profits and price moves below half a cent *)

GuardProfits == {-20, 4, 20}
GuardExitPrices == {1000, 1004, 1020}

GuardTrades ==
    {Trade(0, "Buy", "AAPL", 1, 1000, x, pl, 1000) :
        x \in GuardExitPrices, pl \in GuardProfits}

InitGuard ==
    /\ df \in {Table(r) : r \in SeqsUpTo(GuardTrades, MaxTrades)}
    /\ last = NoCall
    /\ kept = NoCall

NextGuard == CallLossAversion

SpecGuard == InitGuard /\ [][NextGuard]_vars

---------------------------------------------------------------------------
(* app.py: one run of the script per rerun.  kept is st.session_state
   restricted to the keys "df" and "file_fingerprint", df is the script's
   variable df, last records the rerun *)

\* Largest number of files in one upload.
MaxFiles == 2

\* An uploaded file: f.name, f.size (in lines) and what pd.read_csv(f) reads.
File(name, size, rows) == [name |-> name, size |-> size, rows |-> rows]

Row(ts) == Trade(ts, "Buy", "AAPL", 1, 1000, 1000, 0, 4000)

\* Largest number of trades in one file.
MaxFileTrades == 8

\* Two files of one name and size with different contents, the first out of
\* order, the second reaching into the next hour; a file of the header line
\* only; a busy hour.
Files ==
    {File("a.csv", 3, <<Row(10), Row(0)>>),
     File("a.csv", 3, <<Row(0), Row(70)>>),
     File("h.csv", 1, <<>>),
     File("busy.csv", MaxFileTrades + 1, BusyHour(MaxFileTrades))}

Pages == {"Dashboard", "Feedback & Recommendations", "Learning Centre"}

\* What the user types into the max trades/hour input instead of the
\* suggested value.
TypedMaxPerHours == {2}

\* The values of the other threshold inputs, lines 53-56.
Sidebar ==
    [max_vol_ratio |-> 3000, loss_win_ratio |-> 1500, revenge_mult |-> 1500,
     revenge_time |-> 15]

\* [(f.name, f.size) for f in uploaded_files]
Fingerprint(uploaded_files) ==
    [i \in 1..Len(uploaded_files) |->
        <<uploaded_files[i].name, uploaded_files[i].size>>]

RECURSIVE ConcatPrefix(_, _)
ConcatPrefix(dfs, n) ==
    IF n = 0 THEN <<>> ELSE ConcatPrefix(dfs, n - 1) \o dfs[n].rows

\* pd.concat(dfs, ignore_index=True)
Concat(dfs) == ConcatPrefix(dfs, Len(dfs))

\* A test that takes every upload for a new one.
FingerprintDiffers_Always(session, file_fingerprint) == TRUE

\* st.session_state.get("file_fingerprint") != file_fingerprint
FingerprintDiffers(session, file_fingerprint) ==
    \/ "file_fingerprint" \notin DOMAIN session
    \/ session.file_fingerprint # file_fingerprint

\* Lines 74-82: the session state after the load-and-cache block.
LoadAndCache(session, uploaded_files) ==
    IF /\ uploaded_files # <<>>
       /\ FingerprintDiffers(session, Fingerprint(uploaded_files))
    THEN [df |-> Table(SortByTimestamp(Concat(uploaded_files))),
          file_fingerprint |-> Fingerprint(uploaded_files)]
    ELSE session

\* max((df["timestamp"].max() - df["timestamp"].min()).total_seconds() / 3600, 1)
\* as a fraction of hours; the span of an empty table is NaT, whose seconds
\* are NaN, and max(NaN, 1) is NaN.
total_hours_global(d) ==
    IF Len(d.rows) = 0 THEN NaN
    ELSE LET ts == {d.rows[i].timestamp : i \in 1..Len(d.rows)}
             first == CHOOSE t \in ts : \A u \in ts : t <= u
             latest == CHOOSE t \in ts : \A u \in ts : u <= t
         IN  IF latest - first > Hour THEN <<latest - first, Hour>>
             ELSE <<1, 1>>

\* A suggestion without the floor of 15.
SuggestedMaxPerHour_NoFloor(session) ==
    IF "df" \notin DOMAIN session THEN [value |-> 15]
    ELSE IF Len(session.df.rows) = 0 THEN Raises("ValueError")
    ELSE LET hours == total_hours_global(session.df)
         IN  [value |-> (2 * Len(session.df.rows) * hours[2]) \div hours[1]]

\* Lines 87-100: the value the max trades/hour input starts with,
\* max(int(avg_hourly_volume_global * 2), 15) with avg_hourly_volume_global
\* = len(df) / total_hours_global; for the empty table that is NaN and
\* int(NaN) raises ValueError.
SuggestedMaxPerHour(session) ==
    IF "df" \notin DOMAIN session THEN [value |-> 15]
    ELSE IF Len(session.df.rows) = 0 THEN Raises("ValueError")
    ELSE LET hours == total_hours_global(session.df)
             doubled == (2 * Len(session.df.rows) * hours[2]) \div hours[1]
         IN  [value |-> IF doubled > 15 THEN doubled ELSE 15]

\* The script's variable df before it is assigned.
Unbound == [name |-> "df", bound |-> FALSE]

\* Lines 135-154 and 277-291: what the page does with the cached table.
Page(page, session, max_per_hour) ==
    IF page = "Learning Centre" THEN [page |-> page]
    ELSE IF "df" \notin DOMAIN session THEN [stopped |-> TRUE]
    ELSE [max_per_hour |-> max_per_hour,
          biases |-> run_all(session.df, max_per_hour,
                             Sidebar.max_vol_ratio, Sidebar.loss_win_ratio,
                             Sidebar.revenge_mult, Sidebar.revenge_time)]

InitApp ==
    /\ df = Unbound
    /\ kept = EmptyDict
    /\ last = NoCall

\* One run of the script: the user has chosen a page, the uploaded files
\* and, possibly, a value for the max trades/hour input.
Rerun ==
    \E uploaded_files \in SeqsUpTo(Files, MaxFiles), page \in Pages,
       typed \in BOOLEAN, value \in TypedMaxPerHours :
        LET session == LoadAndCache(kept, uploaded_files)
            suggested == SuggestedMaxPerHour(session)
            run == [fn |-> "rerun", uploaded_files |-> uploaded_files,
                    page |-> page, before |-> kept, suggested |-> suggested]
        IN  /\ kept' = session
            /\ df' = IF "df" \in DOMAIN session THEN session.df ELSE Unbound
            /\ last' = IF Returned(suggested)
                       THEN [out |-> Page(page, session,
                                          IF typed THEN value
                                          ELSE suggested.value)] @@ run
                       ELSE [out |-> suggested] @@ run

NextApp == Rerun

SpecApp == InitApp /\ [][NextApp]_vars

---------------------------------------------------------------------------
(* app.py, gemini_call: one step per remote call.  last is the frame of the
   call, df the cached table and kept the report that the page holds *)

\* Largest max_retries; 3 is the default of the parameter.
MaxRetries == 3

FALLBACK == <<"gemini-2.0-flash-lite", "gemini-2.0-flash", "gemini-1.5-flash-8b">>

\* The models a caller asks for: the fallbacks and one that is none of them.
Models == {FALLBACK[i] : i \in 1..Len(FALLBACK)} \cup {"gemini-2.5-flash"}

\* [model] + [m for m in FALLBACK if m != model]
ToTry(model) == <<model>> \o SelectSeq(FALLBACK, LAMBDA m : m # model)

\* How a call of client.models.generate_content ends: with a response,
\* with a ClientError that names 429 or RESOURCE_EXHAUSTED, or with another
\* exception.
Outcomes == {"ok", "quota", "error"}

\* What re.search(r"retry.*?(\d+)s", err) finds in a quota error: nothing,
\* or the seconds the service asks to wait.
RetryHints == {<<>>, <<120>>}

QuotaMessage == "All Gemini models hit their free-tier quota."

\* Nothing returned yet.
Pending == [pending |-> TRUE]

\* A wait as long as the service asks for.
Wait_Uncapped(m, attempt) == IF m # <<>> THEN m[1] ELSE (2 ^ attempt) * 5

\* min(int(m.group(1)) if m else 2 ** attempt * 5, 60)
Wait(m, attempt) ==
    LET asked == IF m # <<>> THEN m[1] ELSE (2 ^ attempt) * 5
    IN  IF asked < 60 THEN asked ELSE 60

InitGemini ==
    /\ df = Table(BusyHour(MaxRunAllTrades))
    /\ kept = [biases |-> run_all(df, DEFAULT_MAX_TRADES_PER_HOUR,
                                  DEFAULT_VOL_BALANCE_RATIO,
                                  DEFAULT_LOSS_WIN_RATIO,
                                  DEFAULT_REVENGE_QTY_MULT,
                                  DEFAULT_REVENGE_TIME_MIN)]
    /\ last = NoCall

\* gemini_call(contents, model, max_retries) is entered; with max_retries
\* = 0 no loop body runs and the message is returned at once.
EnterGeminiCall ==
    /\ last.fn = "gemini_call" => last.pc = "done"
    /\ \E model \in Models, max_retries \in 0..MaxRetries :
           last' = [fn |-> "gemini_call", contents |-> kept.biases,
                    model |-> model, max_retries |-> max_retries,
                    to_try |-> ToTry(model), current |-> 1, attempt |-> 0,
                    calls |-> <<>>,
                    pc |-> IF max_retries = 0 THEN "done" ELSE "attempt",
                    result |-> IF max_retries = 0
                               THEN [returned |-> QuotaMessage]
                               ELSE Pending]
    /\ UNCHANGED <<df, kept>>

\* The frame after the remote call of this attempt has ended with outcome.
AfterAttempt(f, outcome, m) ==
    LET current == f.to_try[f.current]
        call == [model |-> current, attempt |-> f.attempt,
                 outcome |-> outcome, slept |-> <<>>]
    IN  CASE outcome = "ok" ->
                 [f EXCEPT !.calls = Append(@, call), !.pc = "done",
                           !.result = [returned |-> "resp.text",
                                       from |-> current,
                                       caption |-> current # f.model]]
          [] outcome = "error" ->
                 [f EXCEPT !.calls = Append(@, call), !.pc = "done",
                           !.result = Raises("ClientError")]
          [] outcome = "quota" /\ f.attempt < f.max_retries - 1 ->
                 [f EXCEPT !.calls = Append(@,
                               [call EXCEPT !.slept = <<Wait(m, f.attempt)>>]),
                           !.attempt = @ + 1]
          [] outcome = "quota" /\ f.current < Len(f.to_try) ->
                 [f EXCEPT !.calls = Append(@, call), !.current = @ + 1,
                           !.attempt = 0]
          [] OTHER ->
                 [f EXCEPT !.calls = Append(@, call), !.pc = "done",
                           !.result = [returned |-> QuotaMessage]]

\* Lines 111-126: one pass through the body of the inner loop.
Attempt ==
    /\ last.fn = "gemini_call"
    /\ last.pc = "attempt"
    /\ \E outcome \in Outcomes, m \in RetryHints :
           last' = AfterAttempt(last, outcome, m)
    /\ UNCHANGED <<df, kept>>

NextGemini == EnterGeminiCall \/ Attempt

SpecGemini == InitGemini /\ [][NextGemini]_vars

\* The remote call returns or raises and time.sleep returns, so a call
\* that has an attempt to make makes it.
SpecGeminiLive == SpecGemini /\ WF_vars(Attempt)

---------------------------------------------------------------------------
(* Claims about detect_revenge_trading, checked under SpecRevenge *)

RevengeReturned ==
    last.fn = "detect_revenge_trading" /\ Returned(last.out)

\* The caller's table in timestamp order.
Sorted == SortByTimestamp(df.rows)

TotalQuantity == Sum([k \in 1..Len(Sorted) |-> Sorted[k].quantity])

\* The three conditions of a revenge trade, as the specification words them,
\* for position i of the sorted table and the thresholds of the last call.
CondPrevLoss(i) == Sorted[i - 1].profit_loss < 0
CondSize(i) ==
    Sorted[i].quantity * Len(Sorted) * 1000
        > TotalQuantity * last.args.qty_multiplier
CondGap(i) ==
    Sorted[i].timestamp - Sorted[i - 1].timestamp <= last.args.time_window_min

Qualifying ==
    {i \in 2..Len(Sorted) : CondPrevLoss(i) /\ CondSize(i) /\ CondGap(i)}

\* The k-th smallest element of a set of positions.
NthOf(S, k) == CHOOSE i \in S : Cardinality({j \in S : j <= i}) = k

\* A flagged record is the record of position i.
RecordIsOf(rec, i) ==
    /\ rec.timestamp = Sorted[i].timestamp
    /\ rec.quantity = 10000 * Sorted[i].quantity
    /\ 10 * rec.prev_loss = Sorted[i - 1].profit_loss
    /\ rec.mins_after_loss
           = 10 * (Sorted[i].timestamp - Sorted[i - 1].timestamp)

FlaggedWithin(S) ==
    LET ft == last.out.flagged_trades
    IN  \E a \in [1..Len(ft) -> S] :
            /\ \A k \in 1..Len(ft) : RecordIsOf(ft[k], a[k])
            /\ \A k \in 1..(Len(ft) - 1) : a[k] < a[k + 1]

\* C2: the chronologically first trade is never among flagged_trades: every
\* flagged record is the record of a later position, each position used once.
C2_FirstNeverFlagged ==
    RevengeReturned =>
        /\ Len(last.out.flagged_trades) <= Len(Sorted) - 1 \/ Len(Sorted) = 0
        /\ FlaggedWithin(2..Len(Sorted))

\* The first trade is a large loss made inside the window's reach, and the
\* call flagged a later trade only.
C2_Witness ==
    /\ RevengeReturned
    /\ Len(Sorted) >= 2
    /\ Sorted[1].profit_loss < 0
    /\ Sorted[1].quantity * Len(Sorted) * 1000
           > TotalQuantity * last.args.qty_multiplier
    /\ Len(last.out.flagged_trades) = 1

\* C3: no cooldown: when trade i qualifies and is itself a loss, and trade
\* i+1 meets the size and gap conditions, both are flagged, as neighbours
\* in flagged_trades.
C3_NoCooldown ==
    RevengeReturned =>
        \A i \in 2..(Len(Sorted) - 1) :
            (i \in Qualifying /\ CondPrevLoss(i + 1) /\ CondSize(i + 1)
                /\ CondGap(i + 1))
            => \E k \in 1..(Len(last.out.flagged_trades) - 1) :
                   /\ RecordIsOf(last.out.flagged_trades[k], i)
                   /\ RecordIsOf(last.out.flagged_trades[k + 1], i + 1)

\* Two consecutive trades were flagged in one run.
C3_Witness ==
    /\ RevengeReturned
    /\ \E i \in 2..(Len(Sorted) - 1) : {i, i + 1} \subseteq Qualifying
    /\ Len(last.out.flagged_trades) >= 2

\* C4: the result is self-consistent: one record per qualifying trade in
\* ascending timestamp order, revenge_trade_count = len(flagged_trades),
\* flagged iff the count is positive, and one reason (count, multiplier,
\* window) when flagged, none otherwise.
C4_RevengeSelfConsistent ==
    RevengeReturned =>
        LET out == last.out
            ft == out.flagged_trades
        IN  /\ Len(ft) = Cardinality(Qualifying)
            /\ \A k \in 1..(Len(ft) - 1) :
                   ft[k].timestamp <= ft[k + 1].timestamp
            /\ out.details.revenge_trade_count = Len(ft)
            /\ out.flagged = (Len(ft) > 0)
            /\ IF out.flagged
               THEN out.reasons =
                       <<[check |-> "revenge", count |-> Len(ft),
                          qty_multiplier |-> last.args.qty_multiplier,
                          time_window_min |-> last.args.time_window_min]>>
               ELSE out.reasons = <<>>

\* A flagged run with two records and an unflagged run of a non-empty table.
C4_Witness ==
    /\ RevengeReturned
    /\ last.out.flagged
    /\ last.out.details.revenge_trade_count = 2
    /\ Len(last.out.reasons) = 1

---------------------------------------------------------------------------
(* Claims about detect_overtrading, checked under SpecOvertrading and
   SpecVolume *)

OvertradingReturned ==
    last.fn = "detect_overtrading" /\ Returned(last.out)

\* The number of the caller's trades in the calendar hour that starts at h.
TradesInHour(h) ==
    Cardinality({i \in 1..Len(df.rows) :
        /\ h <= df.rows[i].timestamp
        /\ df.rows[i].timestamp < h + 60})

HourStarts == {df.rows[i].timestamp - (df.rows[i].timestamp % 60) :
                  i \in 1..Len(df.rows)}

\* The largest number of trades that one calendar hour holds.
LargestHourlyCount ==
    CHOOSE k \in {TradesInHour(h) : h \in HourStarts} :
        \A h \in HourStarts : TradesInHour(h) <= k

ReasonsOf(check) ==
    SelectSeq(last.out.reasons, LAMBDA r : r.check = check)

\* C5: when one hour holds k > max_per_hour trades, sub-check A flags,
\* reports peak_trades_in_hour = k and gives one reason citing k and the
\* threshold; when the largest hourly count is <= max_per_hour it gives none.
C5_ClusteringFlagsPeak ==
    OvertradingReturned =>
        LET k == LargestHourlyCount
        IN  IF k > last.args.max_per_hour
            THEN /\ last.out.flagged
                 /\ last.out.details.peak_trades_in_hour = k
                 /\ Len(ReasonsOf("A")) = 1
                 /\ ReasonsOf("A")[1].peak_val = k
                 /\ ReasonsOf("A")[1].max_per_hour = last.args.max_per_hour
            ELSE ReasonsOf("A") = <<>>

\* Three trades over two hours, two of them in one hour, against a
\* threshold of one.
C5_Witness ==
    /\ OvertradingReturned
    /\ Cardinality(HourStarts) = 2
    /\ LargestHourlyCount = 2
    /\ last.args.max_per_hour = 1
    /\ Len(ReasonsOf("A")) = 1

\* The divisor of sub-check B: the sum of the balances over the number of
\* rows, or 1 when that mean is zero.
BalanceSum == Sum([i \in 1..Len(df.rows) |-> df.rows[i].balance])
Divisor ==
    IF BalanceSum # 0 THEN <<BalanceSum, Len(df.rows)>> ELSE <<1000, 1>>

Volume == Sum([i \in 1..Len(df.rows) |->
                  df.rows[i].quantity * df.rows[i].entry_price])

\* Volume / divisor compared with max_vol_ratio, all unrounded:
\* Volume * n / B <= T / 1000.
ExactVolRatioAtMost(T) ==
    IF Divisor[1] > 0
    THEN Volume * Divisor[2] * 1000 <= T * Divisor[1]
    ELSE Volume * Divisor[2] * 1000 >= T * Divisor[1]

ExactVolRatioEquals(T) == Volume * Divisor[2] * 1000 = T * Divisor[1]

\* C6: when the unrounded volume/balance ratio is <= max_vol_ratio,
\* sub-check B adds no reason and does not set flagged, whatever sub-checks
\* A and C do.
C6_VolumeNoFlagAtOrBelow ==
    (OvertradingReturned /\ ExactVolRatioAtMost(last.args.max_vol_ratio)) =>
        /\ ReasonsOf("B") = <<>>
        /\ (ReasonsOf("A") = <<>> /\ ReasonsOf("C") = <<>>)
               => ~last.out.flagged

\* The caller's rows rearranged by a permutation of their positions.
Permuted(p) == [k \in 1..Len(df.rows) |-> df.rows[p[k]]]

RowPermutations ==
    {p \in [1..Len(df.rows) -> 1..Len(df.rows)] :
        \A i, j \in 1..Len(df.rows) : i # j => p[i] # p[j]}

\* Every asset's own rows come in the same order in both sequences.
SameOrderWithinAssets(r1, r2) ==
    \A a \in {r1[i].asset : i \in 1..Len(r1)} :
        SelectSeq(r1, LAMBDA r : r.asset = a)
            = SelectSeq(r2, LAMBDA r : r.asset = a)

SwitchesOn(rows) ==
    detect_overtrading(Table(rows), last.args.max_per_hour,
                       last.args.max_vol_ratio, last.args.switch_window_min,
                       last.args.min_switches).details.rapid_position_switches

---------------------------------------------------------------------------
(* Claims about detect_loss_aversion, checked under SpecLoss *)

LossReturned ==
    last.fn = "detect_loss_aversion" /\ Returned(last.out)

WinRows == {i \in 1..Len(df.rows) : df.rows[i].profit_loss > 0}
LossRows == {i \in 1..Len(df.rows) : df.rows[i].profit_loss < 0}

RECURSIVE SumOf(_, _)
\* The sum of f[i] over the positions i of the set S.
SumOf(f, S) ==
    IF S = {} THEN 0
    ELSE LET i == CHOOSE j \in S : TRUE IN f[i] + SumOf(f, S \ {i})

AbsLosses == [i \in 1..Len(df.rows) |->
                 IF df.rows[i].profit_loss < 0 THEN -df.rows[i].profit_loss
                 ELSE df.rows[i].profit_loss]

Ranges == [i \in 1..Len(df.rows) |->
              IF df.rows[i].exit_price >= df.rows[i].entry_price
              THEN df.rows[i].exit_price - df.rows[i].entry_price
              ELSE df.rows[i].entry_price - df.rows[i].exit_price]

\* (mean of f over the losers) / (mean of f over the winners) compared with
\* the threshold T, all unrounded; the mean over the winners is positive.
ExactRatioAtMost(f, T) ==
    /\ SumOf(f, WinRows) > 0
    /\ SumOf(f, LossRows) * Cardinality(WinRows) * 1000
           <= T * SumOf(f, WinRows) * Cardinality(LossRows)

ExactRatioEquals(f, T) ==
    /\ SumOf(f, WinRows) > 0
    /\ SumOf(f, LossRows) * Cardinality(WinRows) * 1000
           = T * SumOf(f, WinRows) * Cardinality(LossRows)

\* C8: with a winner and a loser, when (mean absolute loss)/(mean win) <=
\* ratio_threshold and (mean losers' price range)/(mean winners' price
\* range) <= price_range_ratio, both unrounded, detect_loss_aversion
\* returns flagged = false and no reasons.
C8_LossAversionNoFlagAtOrBelow ==
    (/\ LossReturned
     /\ WinRows # {} /\ LossRows # {}
     /\ ExactRatioAtMost(AbsLosses, last.args.ratio_threshold)
     /\ ExactRatioAtMost(Ranges, last.args.price_range_ratio))
    => (~last.out.flagged /\ last.out.reasons = <<>>)

---------------------------------------------------------------------------
(* The comparisons at their boundaries *)

\* Overtrading: a peak equal to max_per_hour and a ratio equal to
\* max_vol_ratio do not flag; a switch count equal to min_switches does; a
\* pair whose gap equals switch_window_min is not counted.
C9_OvertradingBoundaries ==
    OvertradingReturned =>
        /\ LargestHourlyCount = last.args.max_per_hour
               => ReasonsOf("A") = <<>>
        /\ ExactVolRatioEquals(last.args.max_vol_ratio)
               => ReasonsOf("B") = <<>>
        /\ last.out.details.rapid_position_switches = last.args.min_switches
               => Len(ReasonsOf("C")) = 1
        /\ last.out.details.rapid_position_switches
               = Cardinality({p \in {Sorted[i].asset : i \in 1..Len(Sorted)}
                                       \X (2..Len(Sorted)) :
                     LET sub == SelectSeq(Sorted, LAMBDA r : r.asset = p[1])
                         j == p[2]
                     IN  /\ j <= Len(sub)
                         /\ sub[j].buy_sell # sub[j - 1].buy_sell
                         /\ sub[j].timestamp - sub[j - 1].timestamp
                                # last.args.switch_window_min
                         /\ sub[j].timestamp - sub[j - 1].timestamp
                                <= last.args.switch_window_min})

\* Loss aversion: a loss/win ratio equal to ratio_threshold and a
\* price-range ratio equal to price_range_ratio do not flag.
C9_LossBoundaries ==
    (LossReturned /\ WinRows # {} /\ LossRows # {}) =>
        /\ ExactRatioEquals(AbsLosses, last.args.ratio_threshold)
               => ReasonsOf("A") = <<>>
        /\ ExactRatioEquals(Ranges, last.args.price_range_ratio)
               => ReasonsOf("B") = <<>>

\* Revenge trading: a quantity equal to avg_qty x qty_multiplier is not
\* flagged; a gap equal to time_window_min satisfies the window.
C9_RevengeBoundaries ==
    RevengeReturned =>
        \A i \in 2..Len(Sorted) :
            LET isFlagged ==
                    \E k \in 1..Len(last.out.flagged_trades) :
                        RecordIsOf(last.out.flagged_trades[k], i)
            IN  /\ Sorted[i].quantity * Len(Sorted) * 1000
                       = TotalQuantity * last.args.qty_multiplier
                       => ~isFlagged
                /\ (/\ CondPrevLoss(i) /\ CondSize(i)
                    /\ Sorted[i].timestamp - Sorted[i - 1].timestamp
                           = last.args.time_window_min)
                       => isFlagged

\* C9: every threshold comparison has the documented direction at the
\* boundary: strict for the hourly peak, the volume/balance ratio, the
\* loss/win ratio, the price-range ratio, the revenge quantity and the
\* switch window; inclusive for min_switches and the revenge time window.
C9_BoundaryDirections ==
    /\ C9_OvertradingBoundaries
    /\ C9_LossBoundaries
    /\ C9_RevengeBoundaries

---------------------------------------------------------------------------
(* Claims about run_all, checked under SpecRunAll *)

---------------------------------------------------------------------------
(* Claims about the aggregator and a full configuration, checked under
   SpecConfig *)

\* C11: run_all is pure composition over one configuration: each entry of
\* its report equals the result of the detector called directly with the
\* configuration's values for all eight thresholds, switch_window_min,
\* min_switches and price_range_ratio included.
C11_RunAllIsComposition ==
    (last.fn = "run_all" /\ "min_switches" \in DOMAIN last.args) =>
        LET c == last.args
            ot == detect_overtrading(last.input, c.max_per_hour,
                                     c.max_vol_ratio, c.switch_window_min,
                                     c.min_switches)
            la == detect_loss_aversion(last.input, c.loss_win_ratio,
                                       c.price_range_ratio)
            rt == detect_revenge_trading(last.input, c.revenge_mult,
                                         c.revenge_time_min)
        IN  (Returned(ot) /\ Returned(la) /\ Returned(rt)) =>
                /\ Returned(last.out)
                /\ last.out.overtrading = ot
                /\ last.out.loss_aversion = la
                /\ last.out.revenge_trading = rt

---------------------------------------------------------------------------
(* Claims about the input table, degenerate values and missing columns,
   checked under SpecEngine *)

\* C12: no detector and no run_all call mutates its input: after any
\* sequence of calls the caller's table has the rows, the row order, the
\* columns and the values it was loaded with; derived columns exist in
\* scratch copies only.
C12_InputNeverMutated ==
    /\ kept.fn = "load" => df = kept.table
    /\ (last.fn # "none" /\ "input" \in DOMAIN last) => df = last.input

\* run_all returned for an unsorted table of a winner and a loser, for which
\* the detectors sorted and derived trade_value, price_range and prev_pl.
C12_Witness ==
    /\ kept.fn = "load"
    /\ last.fn = "run_all"
    /\ Returned(last.out)
    /\ df.rows # SortByTimestamp(df.rows)
    /\ "volume_balance_ratio" \in DOMAIN last.out.overtrading.details
    /\ "price_range_ratio" \in DOMAIN last.out.loss_aversion.details
    /\ "revenge_trade_count" \in DOMAIN last.out.revenge_trading.details


\* C13: for a table that has all required columns but degenerate values (no
\* rows, a zero mean balance, a zero mean quantity, no winners or no
\* losers), each detector and run_all returns a result and never raises.
C13_DegenerateNeverRaises ==
    (last.fn # "none" /\ last.input.columns = Columns) => Returned(last.out)

\* The same for tables of at least one row only.
C13_NonEmptyReturns ==
    (last.fn # "none" /\ last.input.columns = Columns
        /\ last.input.rows # <<>>)
    => Returned(last.out)

\* The columns a detector's computation reads from its input.
Needs(fn) ==
    CASE fn = "detect_overtrading" ->
             {"timestamp", "buy_sell", "asset", "quantity", "entry_price",
              "balance"}
      [] fn = "detect_loss_aversion" ->
             {"profit_loss", "entry_price", "exit_price"}
      [] fn = "detect_revenge_trading" ->
             {"timestamp", "quantity", "profit_loss"}
      [] OTHER -> {}

\* An unflagged result that carries a note.
Degraded(out) ==
    /\ Returned(out)
    /\ ~out.flagged
    /\ "note" \in DOMAIN out.details

Lacks(fn) == Needs(fn) \ last.input.columns # {}

\* C14: when a required column is missing, the detector that needs it
\* returns an unflagged result with details.note instead of raising, and
\* run_all still produces every detector's entry.
C14_MissingFieldDegrades ==
    (last.fn # "none" /\ last.input.columns # Columns) =>
        /\ Returned(last.out)
        /\ Lacks(last.fn) => Degraded(last.out)
        /\ last.fn = "run_all" =>
               /\ Lacks("detect_overtrading") => Degraded(last.out.overtrading)
               /\ Lacks("detect_loss_aversion")
                      => Degraded(last.out.loss_aversion)
               /\ Lacks("detect_revenge_trading")
                      => Degraded(last.out.revenge_trading)

\* C15: when the quantity column is absent, detect_revenge_trading returns
\* flagged = false, no reasons, no flagged_trades and details holding the
\* note and nothing else, without raising.
C15_NoQuantityColumn ==
    (last.fn = "detect_revenge_trading"
        /\ "quantity" \notin last.input.columns)
    => /\ Returned(last.out)
       /\ ~last.out.flagged
       /\ last.out.reasons = <<>>
       /\ last.out.flagged_trades = <<>>
       /\ DOMAIN last.out.details = {"note"}

\* The same for tables that have a timestamp column.
C15_NoQuantityButTimestamp ==
    (last.fn = "detect_revenge_trading"
        /\ "quantity" \notin last.input.columns
        /\ "timestamp" \in last.input.columns)
    => /\ Returned(last.out)
       /\ ~last.out.flagged
       /\ last.out.reasons = <<>>
       /\ last.out.flagged_trades = <<>>
       /\ DOMAIN last.out.details = {"note"}

---------------------------------------------------------------------------
(* Claims about insufficient data, checked under SpecLoss *)

\* C16: without a trade of profit_loss > 0 or without a trade of
\* profit_loss < 0, detect_loss_aversion returns flagged = false, no
\* reasons, no flagged_trades and details with a note and no ratio, whatever
\* the thresholds and the entry and exit prices.
C16_InsufficientDataNote ==
    (LossReturned /\ (WinRows = {} \/ LossRows = {})) =>
        /\ ~last.out.flagged
        /\ last.out.reasons = <<>>
        /\ last.out.flagged_trades = <<>>
        /\ "note" \in DOMAIN last.out.details
        /\ DOMAIN last.out.details
               \cap {"loss_win_ratio", "price_range_ratio"} = {}

\* Winners whose prices moved and no loser, under a threshold other than the
\* default.
C16_Witness ==
    /\ LossReturned
    /\ LossRows = {}
    /\ Cardinality(WinRows) >= 2
    /\ \E i \in WinRows : df.rows[i].exit_price # df.rows[i].entry_price
    /\ last.args.ratio_threshold # DEFAULT_LOSS_WIN_RATIO
    /\ "note" \in DOMAIN last.out.details

---------------------------------------------------------------------------
(* Claims about the three sub-checks of detect_overtrading, checked under
   SpecSubchecks, SpecOvertrading and SpecVolume *)

\* The pairs of positions of the sorted table that are neighbours within
\* one asset's trades.
AssetNeighbours ==
    {p \in (1..Len(Sorted)) \X (1..Len(Sorted)) :
        /\ p[1] < p[2]
        /\ Sorted[p[1]].asset = Sorted[p[2]].asset
        /\ \A k \in (p[1] + 1)..(p[2] - 1) :
               Sorted[k].asset # Sorted[p[1]].asset}

\* Those of opposite sides less than switch_window_min minutes apart.
CountedSwitches ==
    Cardinality({p \in AssetNeighbours :
        /\ Sorted[p[1]].buy_sell # Sorted[p[2]].buy_sell
        /\ Sorted[p[2]].timestamp - Sorted[p[1]].timestamp
               < last.args.switch_window_min})

\* Whether each sub-check's own condition holds for the caller's table.
TriggeredA == LargestHourlyCount > last.args.max_per_hour
TriggeredB ==
    Round(Volume * Divisor[2], Divisor[1], 2) * 10 > last.args.max_vol_ratio
TriggeredC == CountedSwitches >= last.args.min_switches

ExpectedChecks ==
    SelectSeq(<<"A", "B", "C">>,
              LAMBDA c : \/ c = "A" /\ TriggeredA
                         \/ c = "B" /\ TriggeredB
                         \/ c = "C" /\ TriggeredC)

\* C17: flagged = A or B or C, and reasons holds one entry per triggered
\* sub-check in the order A, B, C; no sub-check's outcome changes whether
\* another's reason is added.
C17_FlaggedIsDisjunction ==
    OvertradingReturned =>
        /\ last.out.flagged = (TriggeredA \/ TriggeredB \/ TriggeredC)
        /\ [i \in 1..Len(last.out.reasons) |-> last.out.reasons[i].check]
               = ExpectedChecks

\* All three sub-checks triggered in one call.
C17_Witness ==
    /\ OvertradingReturned
    /\ TriggeredA /\ TriggeredB /\ TriggeredC
    /\ Len(last.out.reasons) = 3
    /\ last.out.reasons[3].check = "C"

\* C19: rapid_position_switches is the number of neighbouring pairs within
\* each asset's chronological trades, summed over the assets, whose sides
\* differ and whose gap is strictly less than switch_window_min; trades of
\* different assets are never paired; the switching reason is given iff the
\* total is >= min_switches.
C19_SwitchCountPerAsset ==
    OvertradingReturned =>
        /\ last.out.details.rapid_position_switches = CountedSwitches
        /\ Len(ReasonsOf("C")) =
               (IF CountedSwitches >= last.args.min_switches THEN 1 ELSE 0)

\* One switch counted and the reason given, next to a pair of neighbouring
\* rows of opposite sides on different assets inside the window.
C19_Witness ==
    /\ OvertradingReturned
    /\ last.out.details.rapid_position_switches = 1
    /\ Len(ReasonsOf("C")) = 1
    /\ \E i \in 1..(Len(Sorted) - 1) :
           /\ Sorted[i].asset # Sorted[i + 1].asset
           /\ Sorted[i].buy_sell # Sorted[i + 1].buy_sell
           /\ Sorted[i + 1].timestamp - Sorted[i].timestamp
                  < last.args.switch_window_min


\* C20: the divisor of sub-check B is the mean of the balance column, and 1
\* exactly when that mean is zero: the reported volume_balance_ratio is then
\* the total volume itself, and for every other mean, a negative one
\* included, the total volume divided by that mean (to the nearest
\* hundredth).
C20_ZeroMeanBalanceGuard ==
    OvertradingReturned =>
        LET r == last.out.details.volume_balance_ratio
            n == Len(df.rows)
        IN  IF BalanceSum = 0
            THEN r * 10 = Volume
            ELSE 2 * Abs(100 * Volume * n - r * BalanceSum) <= Abs(BalanceSum)

\* A table of non-zero balances whose mean is zero, and the ratio reported
\* for it.
C20_Witness ==
    /\ OvertradingReturned
    /\ Len(df.rows) >= 2
    /\ \A i \in 1..Len(df.rows) : df.rows[i].balance # 0
    /\ BalanceSum = 0
    /\ last.out.details.volume_balance_ratio * 10 = Volume

\* A table whose mean balance is negative, and the negative ratio reported.
C20_NegativeMeanReached ==
    /\ OvertradingReturned
    /\ BalanceSum < 0
    /\ last.out.details.volume_balance_ratio < 0

---------------------------------------------------------------------------
(* Claims about the fallback thresholds, checked under SpecDefaults *)

\* The keyword argument of the last call, or the documented fallback value.
Given(name, documented) ==
    IF name \in DOMAIN last.args THEN last.args[name] ELSE documented

\* C18: a call that overrides nothing uses the documented fallback
\* thresholds (10, 3.0, 30, 3, 1.5, 1.5, 1.5, 15), and a call that overrides
\* one threshold leaves the other seven at these values.
C18_DocumentedDefaults ==
    (last.fn # "none" /\ Cardinality(DOMAIN last.args) <= 1) =>
        LET ot == detect_overtrading(last.input,
                      Given("max_per_hour", 10), Given("max_vol_ratio", 3000),
                      Given("switch_window_min", 30), Given("min_switches", 3))
            la == detect_loss_aversion(last.input,
                      IF last.fn = "run_all" THEN Given("loss_win_ratio", 1500)
                      ELSE Given("ratio_threshold", 1500),
                      Given("price_range_ratio", 1500))
            rt == detect_revenge_trading(last.input,
                      IF last.fn = "run_all" THEN Given("revenge_mult", 1500)
                      ELSE Given("qty_multiplier", 1500),
                      IF last.fn = "run_all" THEN Given("revenge_time_min", 15)
                      ELSE Given("time_window_min", 15))
        IN  CASE last.fn = "detect_overtrading" -> last.out = ot
              [] last.fn = "detect_loss_aversion" -> last.out = la
              [] last.fn = "detect_revenge_trading" -> last.out = rt
              [] last.fn = "run_all" ->
                     IF Returned(ot) /\ Returned(la) /\ Returned(rt)
                     THEN last.out = [overtrading |-> ot, loss_aversion |-> la,
                                      revenge_trading |-> rt]
                     ELSE ~Returned(last.out)

\* run_all without any override on eleven trades in one hour: the hourly
\* check fires at the default of 10, and the revenge details show 1.5 and 15.
C18_Witness ==
    /\ last.fn = "run_all"
    /\ DOMAIN last.args = {}
    /\ Returned(last.out)
    /\ Len(df.rows) = 11
    /\ last.out.overtrading.reasons[1].check = "A"
    /\ last.out.overtrading.reasons[1].max_per_hour = 10
    /\ last.out.revenge_trading.details.qty_multiplier_used = 1500
    /\ last.out.revenge_trading.details.time_window_minutes = 15

---------------------------------------------------------------------------
(* Claims about the zero guards of detect_loss_aversion, checked under
   SpecGuard *)

\* r hundredths is the hundredth nearest to num / den, for den > 0.
NearestHundredth(r, num, den) == 2 * Abs(100 * num - r * den) <= den

\* One sub-check's guard: with a zero mean of f over the winners the ratio
\* is 0 and the check gives no reason; otherwise the ratio is the mean of f
\* over the losers divided by the mean over the winners, and the check gives
\* its reason iff the ratio exceeds the threshold T.
GuardHolds(f, ratio, check, T) ==
    IF SumOf(f, WinRows) = 0
    THEN ratio = 0 /\ ReasonsOf(check) = <<>>
    ELSE /\ NearestHundredth(ratio,
                SumOf(f, LossRows) * Cardinality(WinRows),
                SumOf(f, WinRows) * Cardinality(LossRows))
         /\ (Len(ReasonsOf(check)) = 1) = (ratio * 10 > T)
         /\ Len(ReasonsOf(check)) <= 1

\* C21: each ratio of detect_loss_aversion is reported as 0, and its
\* sub-check cannot flag, exactly when its denominator (the mean win, resp.
\* the mean price range of the winners) is 0; with a non-zero denominator
\* the reported ratio is the loser mean divided by the winner mean and the
\* sub-check flags iff that ratio exceeds its threshold.
C21_RatioGuards ==
    (LossReturned /\ WinRows # {} /\ LossRows # {}) =>
        /\ GuardHolds(AbsLosses, last.out.details.loss_win_ratio, "A",
                      last.args.ratio_threshold)
        /\ GuardHolds(Ranges, last.out.details.price_range_ratio, "B",
                      last.args.price_range_ratio)

\* The same for tables whose winners' rounded means are at least one cent
\* and whose means are whole cents.
C21_GuardsOnWholeCents ==
    (/\ LossReturned /\ WinRows # {} /\ LossRows # {}
     /\ \A S \in {WinRows, LossRows} : \A f \in {AbsLosses, Ranges} :
            SumOf(f, S) % (10 * Cardinality(S)) = 0)
    => /\ GuardHolds(AbsLosses, last.out.details.loss_win_ratio, "A",
                     last.args.ratio_threshold)
       /\ GuardHolds(Ranges, last.out.details.price_range_ratio, "B",
                     last.args.price_range_ratio)

\* One loss of 0.02 and one win of 0.004: the exact ratio is 5, the ratio
\* reported is 0 and nothing is flagged.
C21_SmallWin ==
    /\ LossReturned
    /\ Len(df.rows) = 2
    /\ df.rows[1].profit_loss = -20
    /\ df.rows[2].profit_loss = 4
    /\ last.out.details.loss_win_ratio = 0
    /\ last.args.ratio_threshold = DEFAULT_LOSS_WIN_RATIO
    /\ ~last.out.flagged

---------------------------------------------------------------------------
(* Claims about the hourly buckets of detect_overtrading, checked under
   SpecOvertrading *)

\* C22: the hourly count of sub-check A is over fixed calendar-hour
\* buckets: peak_hour is the start of a whole hour, peak_trades_in_hour is
\* the number of trades in [peak_hour, peak_hour + 60), no calendar hour
\* holds more, and of the hours that hold as many peak_hour is the earliest.
C22_CalendarHourBuckets ==
    OvertradingReturned =>
        LET peak_hour == last.out.details.peak_hour
            peak_val == last.out.details.peak_trades_in_hour
        IN  /\ peak_hour % 60 = 0
            /\ peak_hour \in HourStarts
            /\ TradesInHour(peak_hour) = peak_val
            /\ \A h \in HourStarts :
                   /\ TradesInHour(h) <= peak_val
                   /\ TradesInHour(h) = peak_val => peak_hour <= h

\* Two trades at 0:45 and 1:00 are fifteen minutes apart but fall in two
\* buckets: the peak is one trade, and of the two tied buckets the earlier
\* is reported.
C22_Witness ==
    /\ OvertradingReturned
    /\ Len(df.rows) = 2
    /\ {df.rows[1].timestamp, df.rows[2].timestamp} = {45, 60}
    /\ last.out.details.peak_trades_in_hour = 1
    /\ last.out.details.peak_hour = 0

---------------------------------------------------------------------------
(* Claims about the three detectors together, checked under SpecMixed *)

DetectorReturned ==
    /\ last.fn \in {"detect_overtrading", "detect_loss_aversion",
                    "detect_revenge_trading"}
    /\ Returned(last.out)

DistinctTimestamps ==
    \A i, j \in 1..Len(df.rows) :
        i # j => df.rows[i].timestamp # df.rows[j].timestamp

Ascending(rows) ==
    \A i \in 1..(Len(rows) - 1) : rows[i].timestamp <= rows[i + 1].timestamp

\* C23: for a table of pairwise distinct timestamps, each detector returns
\* the same result on every permutation of the rows, the ascending one
\* included.
C23_RowOrderIrrelevant ==
    (DetectorReturned /\ DistinctTimestamps) =>
        \A p \in RowPermutations :
            Apply(last.fn, Table(Permuted(p)), last.args) = last.out

\* A revenge trade found in a table given in descending order.
C23_Witness ==
    /\ last.fn = "detect_revenge_trading"
    /\ Returned(last.out)
    /\ Len(df.rows) = 3
    /\ DistinctTimestamps
    /\ \A i \in 1..2 : df.rows[i].timestamp > df.rows[i + 1].timestamp
    /\ last.out.flagged

---------------------------------------------------------------------------
(* Claims about the app's reruns, checked under SpecApp *)

Reran == last.fn = "rerun"

\* The minutes between the earliest and the latest cached trade.
SpanMinutes ==
    CHOOSE m \in 0..200 :
        /\ \A i, j \in 1..Len(df.rows) :
               df.rows[j].timestamp - df.rows[i].timestamp <= m
        /\ \/ Len(df.rows) = 0 /\ m = 0
           \/ \E i, j \in 1..Len(df.rows) :
                  df.rows[j].timestamp - df.rows[i].timestamp = m

\* s = max(floor(2n / max(span_hours, 1)), 15), with the span in minutes.
IsSuggestionFor(s, n, span) ==
    LET D == IF span > 60 THEN span ELSE 60
    IN  /\ s >= 15
        /\ s > 15 => s * D <= 120 * n /\ 120 * n < (s + 1) * D
        /\ s = 15 => 120 * n < 16 * D

\* The report's sub-check A compares the peak with the value passed.
ComparesWithPassed ==
    "biases" \in DOMAIN last.out =>
        LET ot == last.out.biases.overtrading
        IN  (\E i \in 1..Len(ot.reasons) : ot.reasons[i].check = "A")
                = (ot.details.peak_trades_in_hour > last.out.max_per_hour)

\* C24: the suggested max trades/hour is max(floor(2n / max(span_hours, 1)),
\* 15) for the n cached trades, so never below 15, and 15 before data is
\* loaded; detect_overtrading compares the peak with the max_per_hour
\* passed, whatever the suggestion.
C24_SuggestedThreshold ==
    Reran =>
        /\ Returned(last.suggested)
        /\ IF "df" \in DOMAIN kept
           THEN IsSuggestionFor(last.suggested.value, Len(df.rows),
                                SpanMinutes)
           ELSE last.suggested.value = 15
        /\ ComparesWithPassed

\* The same for cached tables of at least one trade.
C24_SuggestedForTrades ==
    (Reran /\ ("df" \in DOMAIN kept => Len(df.rows) > 0)) =>
        /\ Returned(last.suggested)
        /\ IF "df" \in DOMAIN kept
           THEN IsSuggestionFor(last.suggested.value, Len(df.rows),
                                SpanMinutes)
           ELSE last.suggested.value = 15
        /\ ComparesWithPassed

\* A suggestion of 17 from ten trades in 70 minutes, and the peak of nine
\* flagged against the 2 the user typed.
C24_AboveFloor ==
    /\ Reran
    /\ Returned(last.suggested)
    /\ last.suggested.value = 17
    /\ Len(df.rows) = 10
    /\ "biases" \in DOMAIN last.out
    /\ last.out.max_per_hour = 2
    /\ last.out.biases.overtrading.flagged

\* The header-only file is cached and the suggestion raises.
C24_EmptyUpload ==
    /\ Reran
    /\ "df" \in DOMAIN kept
    /\ Len(df.rows) = 0
    /\ ~Returned(last.suggested)


\* The (name, size) pairs of the files of the last rerun.
UploadedPairs ==
    [i \in 1..Len(last.uploaded_files) |->
        <<last.uploaded_files[i].name, last.uploaded_files[i].size>>]

\* The upload is not empty and its pairs are not the stored fingerprint.
NewUpload ==
    /\ last.uploaded_files # <<>>
    /\ \/ "file_fingerprint" \notin DOMAIN last.before
       \/ last.before.file_fingerprint # UploadedPairs

\* How often row r occurs in the uploaded files.
UploadedCount(r) ==
    Cardinality({<<i, j>> \in (1..Len(last.uploaded_files)) \X (1..MaxFileTrades) :
        /\ j <= Len(last.uploaded_files[i].rows)
        /\ last.uploaded_files[i].rows[j] = r})

\* The cached table holds the rows of the uploaded files, each as often as
\* they do, in ascending order of timestamp.
CachedIsSortedUpload ==
    /\ Ascending(kept.df.rows)
    /\ \A i \in 1..Len(last.uploaded_files) :
           \A j \in 1..Len(last.uploaded_files[i].rows) :
               LET r == last.uploaded_files[i].rows[j]
               IN  Cardinality({k \in 1..Len(kept.df.rows) :
                       kept.df.rows[k] = r}) = UploadedCount(r)
    /\ \A k \in 1..Len(kept.df.rows) : UploadedCount(kept.df.rows[k]) > 0

---------------------------------------------------------------------------
(* Claims about gemini_call, checked under SpecGeminiLive *)

InGeminiCall == last.fn = "gemini_call"

GeminiDone == InGeminiCall /\ last.pc = "done"

\* The order the claim gives: the requested model, then the fallbacks that
\* are not the requested model.
ModelOrder ==
    <<last.model>> \o
        SelectSeq(<<"gemini-2.0-flash-lite", "gemini-2.0-flash",
                    "gemini-1.5-flash-8b">>, LAMBDA x : x # last.model)

\* The remote calls made so far for the model at position p of the order.
CallsOf(p) == SelectSeq(last.calls, LAMBDA c : c.model = ModelOrder[p])

\* The place of model x in the order.
PlaceOf(x) == CHOOSE q \in 1..Len(ModelOrder) : ModelOrder[q] = x

\* The calls made are, model by model in the order, attempts 0, 1, ... of
\* that model: no model is skipped, revisited or tried out of turn, and a
\* model is left only after max_retries attempts.
CallsInOrder ==
    /\ \A i \in 1..Len(last.calls) :
           \E q \in 1..Len(ModelOrder) : last.calls[i].model = ModelOrder[q]
    /\ Len(last.calls) > 0 =>
           /\ last.calls[1].model = ModelOrder[1]
           /\ last.calls[1].attempt = 0
    /\ \A i \in 1..(Len(last.calls) - 1) :
           LET a == last.calls[i]
               b == last.calls[i + 1]
           IN  \/ b.model = a.model /\ b.attempt = a.attempt + 1
               \/ /\ PlaceOf(b.model) = PlaceOf(a.model) + 1
                  /\ b.attempt = 0
                  /\ a.attempt = last.max_retries - 1

AttemptsBounded ==
    /\ \A p \in 1..Len(ModelOrder) : Len(CallsOf(p)) <= last.max_retries
    /\ Len(last.calls) <= Len(ModelOrder) * last.max_retries
    /\ last.model \in {"gemini-2.0-flash-lite", "gemini-2.0-flash",
                       "gemini-1.5-flash-8b"}
           => Len(last.calls) <= 3 * last.max_retries

\* A wait follows only a quota failure that is not the model's last
\* attempt, and lasts at most 60 seconds.
WaitsBounded ==
    \A i \in 1..Len(last.calls) :
        LET c == last.calls[i]
        IN  /\ Len(c.slept) <= 1
            /\ c.slept # <<>> => c.slept[1] >= 0 /\ c.slept[1] <= 60
            /\ c.slept # <<>> => c.outcome = "quota"
            /\ c.attempt = last.max_retries - 1 => c.slept = <<>>
            /\ (c.outcome = "quota" /\ c.attempt < last.max_retries - 1)
                   => c.slept # <<>>

\* Only the last call made can have succeeded or failed otherwise, and then
\* the call is over.
FirstSuccessEnds ==
    \A i \in 1..Len(last.calls) :
        last.calls[i].outcome # "quota" => i = Len(last.calls) /\ GeminiDone

ResultIsFirstSuccess ==
    GeminiDone =>
        LET n == Len(last.calls)
        IN  /\ (n > 0 /\ last.calls[n].outcome = "ok") =>
                   /\ last.result.returned = "resp.text"
                   /\ last.result.from = last.calls[n].model
            /\ (Returned(last.result) /\ last.result.returned = QuotaMessage)
                   <=> (\A i \in 1..n : last.calls[i].outcome = "quota")
            /\ (Returned(last.result) /\ last.result.returned = QuotaMessage)
                   => \A p \in 1..Len(ModelOrder) :
                          Len(CallsOf(p)) = last.max_retries

ResultsUntouched ==
    /\ df = Table(BusyHour(MaxRunAllTrades))
    /\ kept.biases = run_all(df, DEFAULT_MAX_TRADES_PER_HOUR,
                             DEFAULT_VOL_BALANCE_RATIO, DEFAULT_LOSS_WIN_RATIO,
                             DEFAULT_REVENGE_QTY_MULT, DEFAULT_REVENGE_TIME_MIN)

C25_Safety ==
    /\ ResultsUntouched
    /\ InGeminiCall =>
           /\ CallsInOrder
           /\ AttemptsBounded
           /\ WaitsBounded
           /\ FirstSuccessEnds
           /\ ResultIsFirstSuccess

\* C25: every call of gemini_call ends; it tries the requested model and
\* then the remaining fallbacks in their order, each at most max_retries
\* times, waits at most 60 seconds and only between attempts of one model,
\* returns the text of the first success, returns the quota message only
\* when every model has failed max_retries times on quota, and leaves the
\* detection results as they are.
C25_GeminiCallTerminates ==
    /\ []C25_Safety
    /\ InGeminiCall ~> GeminiDone

\* The second fallback was asked for; all three models failed three times
\* on quota, with a wait of 60 seconds on the way, and the message came
\* back after nine calls.
C25_Witness ==
    /\ GeminiDone
    /\ last.model = "gemini-2.0-flash"
    /\ last.max_retries = 3
    /\ Len(last.calls) = 9
    /\ last.calls[4].model = "gemini-2.0-flash-lite"
    /\ last.calls[1].slept = <<60>>
    /\ last.calls[2].slept = <<10>>
    /\ last.result.returned = QuotaMessage

\* A fallback answered after the requested model ran out of attempts.
C25_FallbackAnswered ==
    /\ GeminiDone
    /\ Returned(last.result)
    /\ last.result.returned = "resp.text"
    /\ last.result.caption
    /\ Len(last.calls) = last.max_retries + 1


---------------------------------------------------------------------------
(* More claims about the three detectors, checked under SpecMixed *)

\* C26: in every result a detector returns, flagged is true iff reasons is
\* not empty; flagged_trades is empty in the results of detect_overtrading
\* and detect_loss_aversion, and in those of detect_revenge_trading it is
\* non-empty iff the result is flagged.
C26_FlaggedIffReasons ==
    DetectorReturned =>
        /\ last.out.flagged = (last.out.reasons # <<>>)
        /\ last.fn \in {"detect_overtrading", "detect_loss_aversion"}
               => last.out.flagged_trades = <<>>
        /\ last.fn = "detect_revenge_trading"
               => last.out.flagged = (last.out.flagged_trades # <<>>)

\* An overtrading result flagged by the volume check alone.
C26_Witness ==
    /\ last.fn = "detect_overtrading"
    /\ Returned(last.out)
    /\ last.out.flagged
    /\ Len(last.out.reasons) = 1
    /\ last.out.reasons[1].check = "B"
    /\ last.out.flagged_trades = <<>>

\* A revenge result with two flagged trades and one reason.
C26_RevengePopulates ==
    /\ last.fn = "detect_revenge_trading"
    /\ Returned(last.out)
    /\ Len(last.out.flagged_trades) = 2
    /\ Len(last.out.reasons) = 1


PositiveQuantities == \A i \in 1..Len(df.rows) : df.rows[i].quantity > 0

\* With k trades flagged of n under the multiplier m (in thousandths):
\* k <= n - 1 and k x m < n, and of two trades under m = 1.5 the second is
\* flagged only if its quantity is more than 3 times the first's.
FlaggedCountBounds ==
    LET n == Len(df.rows)
        k == Len(last.out.flagged_trades)
        m == last.args.qty_multiplier
    IN  /\ k <= n - 1
        /\ k * m < n * 1000
        /\ (n = 2 /\ m = 1500 /\ k > 0)
               => Sorted[2].quantity > 3 * Sorted[1].quantity

\* C27 as stated: for every sequence of n trades with positive quantities
\* the number k of trades flagged by detect_revenge_trading satisfies
\* k <= n - 1 and k x m < n.
C27_FlaggedCountBounds ==
    (RevengeReturned /\ PositiveQuantities) => FlaggedCountBounds

\* C27, amended: the bounds hold for every sequence of at least one trade
\* with positive quantities; for the empty sequence k = 0 = n.
C27_FlaggedCountBoundsNonEmpty ==
    (RevengeReturned /\ PositiveQuantities) =>
        IF Len(df.rows) = 0
        THEN last.out.flagged_trades = <<>>
        ELSE FlaggedCountBounds

\* Two trades under m = 1.5, the second flagged with 4 times the quantity
\* of the first.
C27_Witness ==
    /\ RevengeReturned
    /\ Len(df.rows) = 2
    /\ last.args.qty_multiplier = 1500
    /\ Len(last.out.flagged_trades) = 1
    /\ Sorted[1].quantity = 1
    /\ Sorted[2].quantity = 4


FlatRows == {i \in 1..Len(df.rows) : df.rows[i].profit_loss = 0}

\* The caller's rows without those at the positions in S.
Without(S) ==
    LET keep == {i \in 1..Len(df.rows) : i \notin S}
    IN  [k \in 1..Cardinality(keep) |-> df.rows[NthOf(keep, k)]]

\* Positions of the sorted table whose predecessor lost.
AfterLoss == {i \in 2..Len(Sorted) : Sorted[i - 1].profit_loss < 0}

\* C28: a trade with profit_loss = 0 is neither winner nor loser:
\* total_winners + total_losers <= n, with equality iff no trade is flat;
\* detect_loss_aversion returns the same result with any of the flat trades
\* taken out; and detect_revenge_trading flags no trade on account of a flat
\* predecessor: every flagged record follows a loss.
C28_FlatTradesIgnored ==
    /\ (LossReturned /\ "total_winners" \in DOMAIN last.out.details) =>
           LET counted == last.out.details.total_winners
                              + last.out.details.total_losers
           IN  /\ counted <= Len(df.rows)
               /\ (counted = Len(df.rows)) = (FlatRows = {})
    /\ LossReturned =>
           \A S \in SUBSET FlatRows :
               detect_loss_aversion(Table(Without(S)),
                                    last.args.ratio_threshold,
                                    last.args.price_range_ratio) = last.out
    /\ RevengeReturned =>
           /\ Len(last.out.flagged_trades) <= Cardinality(AfterLoss)
           /\ \A k \in 1..Len(last.out.flagged_trades) :
                  last.out.flagged_trades[k].prev_loss < 0

\* A flagged loss-aversion result for a loser, a flat trade and a winner.
C28_Witness ==
    /\ LossReturned
    /\ Len(df.rows) = 3
    /\ Cardinality(FlatRows) = 1
    /\ last.out.flagged
    /\ last.out.details.total_winners = 1
    /\ last.out.details.total_losers = 1

\* A trade above the mean quantity ten minutes after a flat one, and no
\* trade flagged.
C28_FlatPredecessor ==
    /\ RevengeReturned
    /\ Len(df.rows) = 2
    /\ Sorted[1].profit_loss = 0
    /\ Sorted[2].quantity = 4
    /\ last.args.qty_multiplier = 1000
    /\ Sorted[2].timestamp - Sorted[1].timestamp = 10
    /\ last.out.flagged_trades = <<>>


RecordsOf(out) == {out.flagged_trades[k] : k \in 1..Len(out.flagged_trades)}

\* C29: for the table of the last call, no stricter threshold setting
\* (a larger qty_multiplier, max_per_hour, max_vol_ratio, min_switches,
\* ratio_threshold or price_range_ratio, a smaller time_window_min or
\* switch_window_min) flags what the setting of the call did not: the
\* revenge trades flagged under it are among those flagged by the call, and
\* an unflagged overtrading or loss-aversion result stays unflagged.
C29_MonotoneInThresholds ==
    /\ RevengeReturned =>
           \A m \in QtyMultipliers, w \in TimeWindows :
               (m >= last.args.qty_multiplier
                    /\ w <= last.args.time_window_min) =>
                   LET stricter == detect_revenge_trading(df, m, w)
                   IN  /\ RecordsOf(stricter) \subseteq RecordsOf(last.out)
                       /\ Len(stricter.flagged_trades)
                              <= Len(last.out.flagged_trades)
    /\ (OvertradingReturned /\ ~last.out.flagged) =>
           \A h \in MixedMaxPerHours, v \in MixedVolRatios,
              w \in MixedSwitchWindows, m \in MixedMinSwitches :
               (/\ h >= last.args.max_per_hour
                /\ v >= last.args.max_vol_ratio
                /\ w <= last.args.switch_window_min
                /\ m >= last.args.min_switches)
                   => ~detect_overtrading(df, h, v, w, m).flagged
    /\ (LossReturned /\ ~last.out.flagged) =>
           \A t \in MixedRatioThresholds, p \in MixedPriceRangeRatios :
               (t >= last.args.ratio_threshold
                    /\ p >= last.args.price_range_ratio)
                   => ~detect_loss_aversion(df, t, p).flagged

\* A trade flagged under multiplier 1.0 and window 30 that neither the
\* multiplier 1.5 nor the window 15 flags.
C29_Witness ==
    /\ RevengeReturned
    /\ last.args = [qty_multiplier |-> 1000, time_window_min |-> 30]
    /\ Len(last.out.flagged_trades) = 1
    /\ ~detect_revenge_trading(df, 1500, 30).flagged
    /\ ~detect_revenge_trading(df, 1000, 15).flagged

\* An overtrading result that is unflagged under the strictest setting and
\* flagged under the loosest.
C29_OvertradingLoosened ==
    /\ OvertradingReturned
    /\ ~last.out.flagged
    /\ last.args = [max_per_hour |-> 3, max_vol_ratio |-> 8000,
                    switch_window_min |-> 10, min_switches |-> 2]
    /\ Len(detect_overtrading(df, 1, 3000, 15, 1).reasons) = 3

=============================================================================
